---- MODULE Spec2Model ----
(***************************************************************************)
(* Model of the Claude usage tool.                                         *)
(* The scraper (electron/scraper.ts):                                      *)
(*   - the single-flight life cycle of scrapeClaudeUsage and               *)
(*     scrapeBillingInfo (module flags, hidden windows, timers, page       *)
(*     events, asynchronous continuations);                                *)
(*   - the in-page usage extraction script, evaluated character by         *)
(*     character on the page text (document.body.innerText);               *)
(*   - the platform login window (openPlatformLoginWindow).                *)
(* The main process (electron/main.ts) and the renderer (src/App.tsx):     *)
(*   - settings, the auto-refresh timer, refreshAllData, the activity log, *)
(*     threshold notifications and the usage state the renderer shows.     *)
(* Strings are sequences of one-character strings. Operators that take or  *)
(* return string positions use JavaScript's 0-based indices.               *)
(***************************************************************************)
EXTENDS Integers, Sequences, FiniteSets, TLC

VARIABLES
  isScrapingUsage,    \* scraper.ts:32
  scraperWindow,      \* scraper.ts:28   0 = null, else the id of the window
  isScrapingBilling,  \* scraper.ts:33
  billingWindow,      \* scraper.ts:29
  usageCalls,         \* one record per invocation of scrapeClaudeUsage
  billingCalls,       \* one record per invocation of scrapeBillingInfo
  usageWin,           \* the hidden windows created by scrapeClaudeUsage
  billingWin,         \* the hidden windows created by scrapeBillingInfo
  usageLoads,         \* did-finish-load handler instances (usage)
  billingLoads,       \* did-finish-load handler instances (billing)
  page,               \* the page handed to the extraction script
  extracted,          \* what the extraction script returned for `page`
  store,              \* main.ts: the electron-store settings
  refreshInterval,    \* main.ts: the refresh timer's handle, 0 = null
  timers,             \* the interval timers setInterval has created
  activityLogs,       \* main.ts: the activity log
  lastNotifiedPercentages, \* main.ts: label -> percentage last notified
  notifications,      \* the notifications shown so far
  checked,            \* the bars handed to checkAndNotify when called on its own
  refreshes,          \* the invocations of refreshAllData
  claudeUsage,        \* App.tsx: the renderer's claudeUsage state
  logs,               \* App.tsx: the renderer's logs state
  platformLoginWindow, \* scraper.ts:31  0 = null, else the id of the window
  platformLogins      \* one record per invocation of openPlatformLoginWindow

vars == <<isScrapingUsage, scraperWindow, isScrapingBilling, billingWindow,
          usageCalls, billingCalls, usageWin, billingWin,
          usageLoads, billingLoads, page, extracted,
          store, refreshInterval, timers, activityLogs, lastNotifiedPercentages,
          notifications, checked, refreshes, claudeUsage, logs,
          platformLoginWindow, platformLogins>>

scraperVars == <<isScrapingUsage, scraperWindow, isScrapingBilling, billingWindow,
                 usageCalls, billingCalls, usageWin, billingWin,
                 usageLoads, billingLoads>>

\* the state of the main process and of the renderer
mainVars == <<store, refreshInterval, timers, activityLogs, lastNotifiedPercentages,
              notifications, checked, refreshes, claudeUsage, logs>>

\* what the scraper's scrapes and the extraction script leave alone
appVars == <<mainVars, platformLoginWindow, platformLogins>>

-----------------------------------------------------------------------------
(* JavaScript string primitives. A string is a sequence of one-character    *)
(* strings; a character outside ASCII is written as its UTF-16 code unit,   *)
(* "U+B9CC", and is one element of the string, as in JavaScript. The        *)
(* definitions avoid recursion over the length of a string, and name an     *)
(* intermediate value by binding it (With, or a quantifier over a one-      *)
(* element set), which evaluates it once.                                   *)

\* F(e)
With(e, F(_)) == CHOOSE r \in {F(x) : x \in {e}} : TRUE

Min(a, b) == IF a < b THEN a ELSE b
Max(a, b) == IF a > b THEN a ELSE b

\* the least element of a non-empty set of integers
Least(S) == With(S, LAMBDA T : CHOOSE x \in T : \A y \in T : x <= y)

Lower(c) ==
  CASE c = "A" -> "a" [] c = "B" -> "b" [] c = "C" -> "c" [] c = "D" -> "d"
    [] c = "E" -> "e" [] c = "F" -> "f" [] c = "G" -> "g" [] c = "H" -> "h"
    [] c = "I" -> "i" [] c = "J" -> "j" [] c = "K" -> "k" [] c = "L" -> "l"
    [] c = "M" -> "m" [] c = "N" -> "n" [] c = "O" -> "o" [] c = "P" -> "p"
    [] c = "Q" -> "q" [] c = "R" -> "r" [] c = "S" -> "s" [] c = "T" -> "t"
    [] c = "U" -> "u" [] c = "V" -> "v" [] c = "W" -> "w" [] c = "X" -> "x"
    [] c = "Y" -> "y" [] c = "Z" -> "z" [] OTHER -> c

toLowerCase(s) == [i \in 1..Len(s) |-> Lower(s[i])]

Digits == {"0", "1", "2", "3", "4", "5", "6", "7", "8", "9"}

\* \s of the regular expressions and the characters trim() removes
WhiteSpace == {" ", "\n", "\t", "\r"}

DigitValue(c) ==
  CASE c = "0" -> 0 [] c = "1" -> 1 [] c = "2" -> 2 [] c = "3" -> 3
    [] c = "4" -> 4 [] c = "5" -> 5 [] c = "6" -> 6 [] c = "7" -> 7
    [] c = "8" -> 8 [] c = "9" -> 9

\* the number written by the first n digits of ds
RECURSIVE parseDigits(_, _)
parseDigits(ds, n) ==
  IF n = 0 THEN 0 ELSE 10 * parseDigits(ds, n - 1) + DigitValue(ds[n])

\* parseInt(ds, 10) of a run of decimal digits
parseInt(ds) == With(ds, LAMBDA digits : parseDigits(digits, Len(digits)))

\* s.substring(from, to), 0-based, to exclusive
substring(s, from, to) ==
  LET a == Max(0, Min(from, Len(s)))
      b == Max(0, Min(to, Len(s)))
  IN  SubSeq(s, Min(a, b) + 1, Max(a, b))

\* does sub occur in s at 0-based index k
OccursAt(s, sub, k) ==
  /\ k >= 0
  /\ k + Len(sub) <= Len(s)
  /\ \A i \in 1..Len(sub) : s[k + i] = sub[i]

includes(s, sub) ==
  \E str \in {s}, part \in {sub} : \E k \in 0..Len(str) : OccursAt(str, part, k)

startsWith(s, sub) == OccursAt(s, sub, 0)

\* s.lastIndexOf(sub): the greatest index of an occurrence, -1 if none
lastIndexOf(s, sub) ==
  With(<<s, sub>>, LAMBDA a :
    With({d \in 0..Len(a[1]) : OccursAt(a[1], a[2], Len(a[1]) - d)}, LAMBDA back :
      IF back = {} THEN -1 ELSE Len(a[1]) - Least(back)))

\* s.trim()
trim(s) ==
  With(s, LAMBDA str :
    With({k \in 1..Len(str) : str[k] \notin WhiteSpace}, LAMBDA ink :
      IF ink = {} THEN <<>>
      ELSE SubSeq(str, Least(ink), Len(str) - Least({Len(str) - k : k \in ink}))))

\* the concatenation of the sequences parts[lo], ..., parts[hi]
RECURSIVE Flatten(_, _, _)
Flatten(parts, lo, hi) ==
  IF lo > hi THEN <<>>
  ELSE IF lo = hi THEN parts[lo]
  ELSE LET mid == (lo + hi) \div 2
       IN  Flatten(parts, lo, mid) \o Flatten(parts, mid + 1, hi)

\* s.split('\n')
split(s) ==
  With(s, LAMBDA str :
    \* the positions that bound the pieces: 0, each newline, and the end
    With({0, Len(str) + 1} \cup {k \in 1..Len(str) : str[k] = "\n"}, LAMBDA cuts :
      \* the k-th of them, in increasing order
      With([k \in 1..Cardinality(cuts) |->
              CHOOSE c \in cuts : Cardinality({d \in cuts : d < c}) = k - 1],
           LAMBDA nth :
             [k \in 1..(Len(nth) - 1) |-> SubSeq(str, nth[k] + 1, nth[k + 1] - 1)])))

-----------------------------------------------------------------------------
(* Regular expressions. A pattern is a tree of records; Ends gives, for a   *)
(* pattern, a string and a start position (1-based), the matches that start *)
(* there in the order a backtracking matcher tries them (greedy             *)
(* quantifiers, left alternative first). Each match is [e, g]: the position *)
(* after the match and the span <<from, to>> of the capture group           *)
(* (<<>> when the group did not take part). The patterns of scraper.ts      *)
(* apply their star and plus quantifiers to single characters only, so      *)
(* RStar takes a character class.                                           *)

RSet(S)    == [t |-> "set", s |-> S, i |-> FALSE, n |-> FALSE]  \* [...]
RSetI(S)   == [t |-> "set", s |-> S, i |-> TRUE, n |-> FALSE]   \* [...] with flag i
RNotSet(S) == [t |-> "set", s |-> S, i |-> FALSE, n |-> TRUE]   \* [^...]
RLit(str)  == [t |-> "lit", s |-> str, i |-> FALSE]             \* literal text
RLitI(str) == [t |-> "lit", s |-> toLowerCase(str), i |-> TRUE] \* literal, flag i
REmpty     == [t |-> "empty"]
RBegin     == [t |-> "bol"]              \* ^
REnd       == [t |-> "eol"]              \* $
RCat(a, b) == [t |-> "cat", a |-> a, b |-> b]
RAlt(a, b) == [t |-> "alt", a |-> a, b |-> b]
RStar(c)   == [t |-> "star", a |-> c]    \* c*, c a character class
RPlus(c)   == RCat(c, RStar(c))          \* c+
ROpt(a)    == RAlt(a, REmpty)            \* a?
RGroup(a)  == [t |-> "group", a |-> a]   \* ( a )

\* the patterns ps[lo], ..., ps[hi] one after the other
RECURSIVE RSeqOf(_, _, _)
RSeqOf(ps, lo, hi) ==
  IF lo = hi THEN ps[lo]
  ELSE LET mid == (lo + hi) \div 2
       IN  RCat(RSeqOf(ps, lo, mid), RSeqOf(ps, mid + 1, hi))

RSeq(ps) == RSeqOf(ps, 1, Len(ps))

\* the alternatives ps[1] | ... | ps[n]
RECURSIVE RAny(_)
RAny(ps) == IF Len(ps) = 1 THEN ps[1] ELSE RAlt(ps[1], RAny(Tail(ps)))

\* does character c belong to the class cls
InClass(cls, c) ==
  LET in == IF cls.i THEN Lower(c) \in cls.s ELSE c \in cls.s
  IN  IF cls.n THEN ~in ELSE in

RECURSIVE Ends(_, _, _)
Ends(re, s, i) ==
  CASE re.t = "set" ->
         IF i <= Len(s) /\ InClass(re, s[i])
         THEN <<[e |-> i + 1, g |-> <<>>]>> ELSE <<>>
    [] re.t = "lit" ->
         IF /\ i + Len(re.s) <= Len(s) + 1
            /\ \A k \in 1..Len(re.s) :
                 (IF re.i THEN Lower(s[i + k - 1]) ELSE s[i + k - 1]) = re.s[k]
         THEN <<[e |-> i + Len(re.s), g |-> <<>>]>> ELSE <<>>
    [] re.t = "empty" -> <<[e |-> i, g |-> <<>>]>>
    [] re.t = "bol" -> IF i = 1 THEN <<[e |-> i, g |-> <<>>]>> ELSE <<>>
    [] re.t = "eol" ->
         IF i = Len(s) + 1 THEN <<[e |-> i, g |-> <<>>]>> ELSE <<>>
    [] re.t = "alt" -> Ends(re.a, s, i) \o Ends(re.b, s, i)
    [] re.t = "group" ->
         With(Ends(re.a, s, i), LAMBDA inner :
           [k \in 1..Len(inner) |-> [e |-> inner[k].e, g |-> <<i, inner[k].e>>]])
    [] re.t = "star" ->
         \* the longest run first, then one character less, down to none
         With({p \in i..Len(s) : ~InClass(re.a, s[p])}, LAMBDA stop :
           With(IF stop = {} THEN Len(s) + 1 ELSE Least(stop), LAMBDA end :
             [k \in 1..(end - i + 1) |-> [e |-> end + 1 - k, g |-> <<>>]]))
    [] re.t = "cat" ->
         LET then(r) ==
               With(Ends(re.b, s, r.e), LAMBDA second :
                 [k \in 1..Len(second) |->
                    [e |-> second[k].e,
                     g |-> IF second[k].g # <<>> THEN second[k].g ELSE r.g]])
         IN  With(Ends(re.a, s, i), LAMBDA first :
               With([k \in 1..Len(first) |-> then(first[k])], LAMBDA parts :
                 Flatten(parts, 1, Len(parts))))

NoMatch == [found |-> FALSE]

\* the leftmost match at or after 0-based index `from` (RegExp.prototype.exec
\* with lastIndex = from): index and end are 0-based, m0 is match[0] and
\* m1 is match[1]
Exec(re, s, from) ==
  \* the first match from each position that has one
  With({<<p, r>> \in {<<q, Ends(re, s, q)>> : q \in (from + 1)..(Len(s) + 1)} :
           Len(r) > 0}, LAMBDA matches :
    IF matches = {} THEN NoMatch
    ELSE With(Least({m[1] : m \in matches}), LAMBDA p :
           With((CHOOSE m \in matches : m[1] = p)[2][1], LAMBDA r :
             [found |-> TRUE, index |-> p - 1, end |-> r.e - 1,
              m0 |-> SubSeq(s, p, r.e - 1),
              m1 |-> IF r.g = <<>> THEN <<>> ELSE SubSeq(s, r.g[1], r.g[2] - 1)])))

\* s.match(re) for a pattern without the g flag
match(s, re) == Exec(re, s, 0)

\* all matches of a pattern with the g flag, left to right, not overlapping
\* (repeated regex.exec(s), and s.match(re) for a g pattern)
RECURSIVE matchAllFrom(_, _, _)
matchAllFrom(re, s, from) ==
  With(Exec(re, s, from), LAMBDA m :
    IF ~m.found THEN <<>>
    ELSE <<m>> \o matchAllFrom(re, s, IF m.end = m.index THEN m.end + 1 ELSE m.end))

matchAll(s, re) == matchAllFrom(re, s, 0)

-----------------------------------------------------------------------------
(* The in-page extraction script of scrapeClaudeUsage                        *)
(* (scraper.ts:185-412). An absent value (null, undefined) is <<>> and a     *)
(* present one is <<v>>.                                                    *)

None == <<>>
Some(v) == <<v>>

sectionLabels ==
  << <<"C", "u", "r", "r", "e", "n", "t", " ", "s", "e", "s", "s", "i", "o", "n">>,
     <<"A", "l", "l", " ", "m", "o", "d", "e", "l", "s">>,
     <<"S", "o", "n", "n", "e", "t", " ", "o", "n", "l", "y">>,
     <<"S", "o", "n", "n", "e", "t", "U+B9CC">>,
     <<"E", "x", "t", "r", "a", " ", "u", "s", "a", "g", "e">>,
     <<"W", "e", "e", "k", "l", "y", " ", "l", "i", "m", "i", "t">>,
     <<"W", "e", "e", "k", "l", "y", " ", "l", "i", "m", "i", "t", "s">>,
     <<"D", "a", "i", "l", "y", " ", "l", "i", "m", "i", "t">>,
     <<"M", "o", "n", "t", "h", "l", "y", " ", "l", "i", "m", "i", "t">>,
     <<"S", "t", "a", "n", "d", "a", "r", "d">>,
     <<"A", "d", "v", "a", "n", "c", "e", "d">>,
     <<"U+C8FC", "U+AC04", " ", "U+D55C", "U+B3C4">>,
     <<"U+C77C", "U+C77C", " ", "U+D55C", "U+B3C4">>,
     <<"U+C6D4", "U+AC04", " ", "U+D55C", "U+B3C4">> >>

defaultLabels ==
  << <<"C", "u", "r", "r", "e", "n", "t", " ", "S", "e", "s", "s", "i", "o", "n">>, <<"A", "l", "l", " ", "m", "o", "d", "e", "l", "s">>, <<"S", "o", "n", "n", "e", "t", " ", "o", "n", "l", "y">>, <<"E", "x", "t", "r", "a", " ", "u", "s", "a", "g", "e">> >>

\* /(\d+)%\s*used/i
pctUsedRe ==
  RSeq(<<RGroup(RPlus(RSet(Digits))), RSet({"%"}), RStar(RSet(WhiteSpace)),
         RLitI(<<"u", "s", "e", "d">>)>>)

\* /^(\d+)%$/
pctOnlyRe == RSeq(<<RBegin, RGroup(RPlus(RSet(Digits))), RSet({"%"}), REnd>>)

\* /(\d+)%/g
percentRe == RSeq(<<RGroup(RPlus(RSet(Digits))), RSet({"%"})>>)

\* /[^\n]*(?:U+D6C4|U+C5D0)\s*U+C7ACU+C124U+C815/gi
koreanResetRe ==
  RSeq(<<RStar(RNotSet({"\n"})), RSetI({"U+D6C4", "U+C5D0"}), RStar(RSet(WhiteSpace)),
         RLitI(<<"U+C7AC", "U+C124", "U+C815">>)>>)

\* /Resets?[^\n]*/gi
englishResetRe ==
  RSeq(<<RLitI(<<"R", "e", "s", "e", "t">>), ROpt(RSetI({"s"})), RStar(RNotSet({"\n"}))>>)

\* the lines of the page: text.split('\n').map(l => l.trim()).filter(l => l)
pageLines(text) ==
  With(split(text), LAMBDA raw :
    SelectSeq([k \in 1..Len(raw) |-> trim(raw[k])], LAMBDA l : Len(l) > 0))

isLabel(line) ==
  \E lower \in {toLowerCase(line)} :
    \E k \in 1..Len(sectionLabels) : lower = toLowerCase(sectionLabels[k])

\* the number added to the heading's index to bound the scan loop
ScanBound == 8

\* the inner loop without its break statements: every line up to stop is
\* read and a later percentage or reset line overwrites an earlier one
RECURSIVE scanSectionNoBreak(_, _, _, _)
scanSectionNoBreak(lines, j, stop, acc) ==
  IF j >= stop THEN acc
  ELSE With(lines[j + 1], LAMBDA nextLine :
       With(IF startsWith(toLowerCase(nextLine), <<"r", "e", "s", "e", "t">>)
            THEN nextLine ELSE acc.resetInfo, LAMBDA resetInfo :
       With(match(nextLine, pctUsedRe), LAMBDA pctMatch :
         IF pctMatch.found
         THEN scanSectionNoBreak(lines, j + 1, stop,
                [percentage |-> parseInt(pctMatch.m1), resetInfo |-> resetInfo,
                 foundPercentage |-> TRUE])
         ELSE With(match(nextLine, pctOnlyRe), LAMBDA pctOnlyMatch :
           IF pctOnlyMatch.found
           THEN scanSectionNoBreak(lines, j + 1, stop,
                  [percentage |-> parseInt(pctOnlyMatch.m1), resetInfo |-> resetInfo,
                   foundPercentage |-> TRUE])
           ELSE scanSectionNoBreak(lines, j + 1, stop,
                  [percentage |-> acc.percentage, resetInfo |-> resetInfo,
                   foundPercentage |-> acc.foundPercentage])))))

\* the inner loop of the labeled-section parser, from 0-based line index j:
\* the values of percentage, resetInfo and foundPercentage when it ends
RECURSIVE scanSection(_, _, _, _)
scanSection(lines, j, stop, acc) ==
  IF j >= stop THEN acc
  ELSE With(lines[j + 1], LAMBDA nextLine :
       With(IF startsWith(toLowerCase(nextLine), <<"r", "e", "s", "e", "t">>)
            THEN nextLine ELSE acc.resetInfo, LAMBDA resetInfo :
       With(match(nextLine, pctUsedRe), LAMBDA pctMatch :
         IF pctMatch.found
         THEN [percentage |-> parseInt(pctMatch.m1), resetInfo |-> resetInfo,
               foundPercentage |-> TRUE]
         ELSE With(match(nextLine, pctOnlyRe), LAMBDA pctOnlyMatch :
           IF pctOnlyMatch.found
           THEN [percentage |-> parseInt(pctOnlyMatch.m1), resetInfo |-> resetInfo,
                 foundPercentage |-> TRUE]
           ELSE scanSection(lines, j + 1, stop,
                  [percentage |-> 0, resetInfo |-> resetInfo,
                   foundPercentage |-> FALSE])))))

\* the body of the outer loop with the test of the earlier revision,
\* `percentage >= 0 || resetInfo`, in place of `foundPercentage || resetInfo`
sectionBarsAnyPercentage(lines, i) ==
  With(lines[i + 1], LAMBDA line :
    IF ~isLabel(line) THEN <<>>
    ELSE With(scanSection(lines, i + 1, Min(i + ScanBound, Len(lines)),
                [percentage |-> 0, resetInfo |-> <<>>, foundPercentage |-> FALSE]),
              LAMBDA found :
           IF ~(found.percentage >= 0 \/ found.resetInfo # <<>>) THEN <<>>
           ELSE IF toLowerCase(line) = <<"w", "e", "e", "k", "l", "y", " ", "l", "i", "m", "i", "t", "s">> THEN <<>>
           ELSE <<[value |-> found.percentage, max |-> 100, label |-> line,
                   resetInfo |-> found.resetInfo, context |-> None,
                   percentage |-> found.percentage]>>))

\* the body of the outer loop without the `continue` on 'weekly limits'
sectionBarsNoWeeklySkip(lines, i) ==
  With(lines[i + 1], LAMBDA line :
    IF ~isLabel(line) THEN <<>>
    ELSE With(scanSection(lines, i + 1, Min(i + ScanBound, Len(lines)),
                [percentage |-> 0, resetInfo |-> <<>>, foundPercentage |-> FALSE]),
              LAMBDA found :
           IF ~(found.foundPercentage \/ found.resetInfo # <<>>) THEN <<>>
           ELSE <<[value |-> found.percentage, max |-> 100, label |-> line,
                   resetInfo |-> found.resetInfo, context |-> None,
                   percentage |-> found.percentage]>>))

\* the body of the outer loop with the scan loop written `j <= Math.min(...)`
sectionBarsInclusiveBound(lines, i) ==
  With(lines[i + 1], LAMBDA line :
    IF ~isLabel(line) THEN <<>>
    ELSE With(scanSection(lines, i + 1, Min(i + ScanBound + 1, Len(lines)),
                [percentage |-> 0, resetInfo |-> <<>>, foundPercentage |-> FALSE]),
              LAMBDA found :
           IF ~(found.foundPercentage \/ found.resetInfo # <<>>) THEN <<>>
           ELSE IF toLowerCase(line) = <<"w", "e", "e", "k", "l", "y", " ", "l", "i", "m", "i", "t", "s">> THEN <<>>
           ELSE <<[value |-> found.percentage, max |-> 100, label |-> line,
                   resetInfo |-> found.resetInfo, context |-> None,
                   percentage |-> found.percentage]>>))

\* the body of the outer loop for the line at 0-based index i: the bars it
\* pushes (none or one)
sectionBars(lines, i) ==
  With(lines[i + 1], LAMBDA line :
    IF ~isLabel(line) THEN <<>>
    ELSE With(scanSection(lines, i + 1, Min(i + ScanBound, Len(lines)),
                [percentage |-> 0, resetInfo |-> <<>>, foundPercentage |-> FALSE]),
              LAMBDA found :
           IF ~(found.foundPercentage \/ found.resetInfo # <<>>) THEN <<>>
           ELSE IF toLowerCase(line) = <<"w", "e", "e", "k", "l", "y", " ", "l", "i", "m", "i", "t", "s">> THEN <<>>
           ELSE <<[value |-> found.percentage, max |-> 100, label |-> line,
                   resetInfo |-> found.resetInfo, context |-> None,
                   percentage |-> found.percentage]>>))

\* the labeled-section parser with unshift in place of push: the bars in
\* the reverse of the order of their headings
labeledBarsUnshift(text) ==
  With(pageLines(text), LAMBDA lines :
    With([k \in 1..Len(lines) |-> sectionBars(lines, Len(lines) - k)], LAMBDA pushed :
      Flatten(pushed, 1, Len(pushed))))

\* the labeled-section parser: the bars pushed by the loop over all lines
labeledBars(text) ==
  With(pageLines(text), LAMBDA lines :
    With([k \in 1..Len(lines) |-> sectionBars(lines, k - 1)], LAMBDA pushed :
      Flatten(pushed, 1, Len(pushed))))

-----------------------------------------------------------------------------
(* The proximity fallback parser (scraper.ts:292-364)                        *)

FallbackCap == 4      \* Math.min(percentMatches.length, 4)
BeforeSpan == 150     \* pctMatch.index - 150

\* the while loop without the test on foundPercentages
RECURSIVE collectPercentsNoDedup(_, _, _)
collectPercentsNoDedup(ms, k, found) ==
  IF k > Len(ms) THEN <<>>
  ELSE With(parseInt(ms[k].m1), LAMBDA pct :
         IF pct >= 0 /\ pct <= 100
         THEN <<[percentage |-> pct, index |-> ms[k].index]>>
              \o collectPercentsNoDedup(ms, k + 1, found)
         ELSE collectPercentsNoDedup(ms, k + 1, found))

\* the while loop without the test `pct <= 100`
RECURSIVE collectPercentsNoRange(_, _, _)
collectPercentsNoRange(ms, k, found) ==
  IF k > Len(ms) THEN <<>>
  ELSE With(parseInt(ms[k].m1), LAMBDA pct :
         IF pct >= 0 /\ pct \notin found
         THEN With(found \cup {pct}, LAMBDA foundPercentages :
                <<[percentage |-> pct, index |-> ms[k].index]>>
                \o collectPercentsNoRange(ms, k + 1, foundPercentages))
         ELSE collectPercentsNoRange(ms, k + 1, found))

\* the while loop over regex.exec(text): ms are the matches of /(\d+)%/g,
\* found is the set foundPercentages
RECURSIVE collectPercents(_, _, _)
collectPercents(ms, k, found) ==
  IF k > Len(ms) THEN <<>>
  ELSE With(parseInt(ms[k].m1), LAMBDA pct :
         IF pct >= 0 /\ pct <= 100 /\ pct \notin found
         THEN With(found \cup {pct}, LAMBDA foundPercentages :
                <<[percentage |-> pct, index |-> ms[k].index]>>
                \o collectPercents(ms, k + 1, foundPercentages))
         ELSE collectPercents(ms, k + 1, found))

\* percentMatches with the regex written /(\d+)\s*%/g
percentMatchesLooseSign(text) ==
  With(matchAll(text, RSeq(<<RGroup(RPlus(RSet(Digits))), RStar(RSet(WhiteSpace)),
                             RSet({"%"})>>)),
       LAMBDA ms : collectPercents(ms, 1, {}))

percentMatches(text) ==
  With(matchAll(text, percentRe), LAMBDA ms : collectPercents(ms, 1, {}))

\* String(n) for a natural number
RECURSIVE numberToString(_)
numberToString(n) ==
  With(<<"0", "1", "2", "3", "4", "5", "6", "7", "8", "9">>[(n % 10) + 1], LAMBDA d :
    IF n < 10 THEN <<d>> ELSE numberToString(n \div 10) \o <<d>>)

\* the loop over sectionLabels with the comparison turned round: the label
\* farthest from the percentage wins
RECURSIVE closestLabelFarthest(_, _, _)
closestLabelFarthest(beforeText, k, acc) ==
  IF k > Len(sectionLabels) THEN acc.label
  ELSE With(sectionLabels[k], LAMBDA labelOption :
       With(lastIndexOf(toLowerCase(beforeText), toLowerCase(labelOption)),
            LAMBDA labelIndex :
       With(Len(beforeText) - labelIndex, LAMBDA distance :
       With(IF labelIndex # -1
               /\ (acc.closestDistance = None \/ distance > acc.closestDistance[1])
            THEN [label |-> labelOption, closestDistance |-> Some(distance)]
            ELSE acc, LAMBDA closest :
         closestLabelFarthest(beforeText, k + 1, closest)))))

\* the loop over sectionLabels that finds the closest label before the
\* percentage; closestDistance is None for Infinity
RECURSIVE closestLabel(_, _, _)
closestLabel(beforeText, k, acc) ==
  IF k > Len(sectionLabels) THEN acc.label
  ELSE With(sectionLabels[k], LAMBDA labelOption :
       With(lastIndexOf(toLowerCase(beforeText), toLowerCase(labelOption)),
            LAMBDA labelIndex :
       With(Len(beforeText) - labelIndex, LAMBDA distance :
       With(IF labelIndex # -1
               /\ (acc.closestDistance = None \/ distance < acc.closestDistance[1])
            THEN [label |-> labelOption, closestDistance |-> Some(distance)]
            ELSE acc, LAMBDA closest :
         closestLabel(beforeText, k + 1, closest)))))

\* "Normalize Korean labels to English"
normalizeLabel(label) ==
  IF label = <<"S", "o", "n", "n", "e", "t", "U+B9CC">> THEN <<"S", "o", "n", "n", "e", "t", " ", "o", "n", "l", "y">>
  ELSE IF label = <<"U+C8FC", "U+AC04", " ", "U+D55C", "U+B3C4">> THEN <<"W", "e", "e", "k", "l", "y", " ", "l", "i", "m", "i", "t">>
  ELSE IF label = <<"U+C77C", "U+C77C", " ", "U+D55C", "U+B3C4">> THEN <<"D", "a", "i", "l", "y", " ", "l", "i", "m", "i", "t">>
  ELSE IF label = <<"U+C6D4", "U+AC04", " ", "U+D55C", "U+B3C4">> THEN <<"M", "o", "n", "t", "h", "l", "y", " ", "l", "i", "m", "i", "t">>
  ELSE label

\* the reset text with the English idiom tried first
fallbackResetInfoEnglishFirst(beforeText) ==
  With(matchAll(beforeText, koreanResetRe), LAMBDA koreanResetMatch :
  With(matchAll(beforeText, englishResetRe), LAMBDA englishResetMatch :
    IF Len(englishResetMatch) > 0
    THEN trim(englishResetMatch[Len(englishResetMatch)].m0)
    ELSE IF Len(koreanResetMatch) > 0
    THEN trim(koreanResetMatch[Len(koreanResetMatch)].m0)
    ELSE <<>>))

\* the reset text found before a percentage
fallbackResetInfo(beforeText) ==
  With(matchAll(beforeText, koreanResetRe), LAMBDA koreanResetMatch :
  With(matchAll(beforeText, englishResetRe), LAMBDA englishResetMatch :
    IF Len(koreanResetMatch) > 0
    THEN trim(koreanResetMatch[Len(koreanResetMatch)].m0)
    ELSE IF Len(englishResetMatch) > 0
    THEN trim(englishResetMatch[Len(englishResetMatch)].m0)
    ELSE <<>>))

\* the body of the loop over percentMatches, i 0-based
fallbackBar(text, i, pctMatch) ==
  With(substring(text, Max(0, pctMatch.index - BeforeSpan), pctMatch.index),
       LAMBDA beforeText :
  With(IF i < Len(defaultLabels) THEN defaultLabels[i + 1]
       ELSE <<"U", "s", "a", "g", "e", " ">> \o numberToString(i + 1), LAMBDA initial :
  With(closestLabel(beforeText, 1, [label |-> initial, closestDistance |-> None]),
       LAMBDA closest :
  With(fallbackResetInfo(beforeText), LAMBDA resetInfo :
    [value |-> pctMatch.percentage, max |-> 100, label |-> normalizeLabel(closest),
     resetInfo |-> resetInfo, context |-> Some(resetInfo),
     percentage |-> pctMatch.percentage]))))

\* the fallback parser with its loop over all of percentMatches
fallbackBarsUncapped(text) ==
  With(percentMatches(text), LAMBDA pm :
    With([i \in 1..Len(pm) |-> fallbackBar(text, i - 1, pm[i])],
         LAMBDA pushed : Flatten([k \in 1..Len(pushed) |-> <<pushed[k]>>], 1, Len(pushed))))

fallbackBars(text) ==
  With(percentMatches(text), LAMBDA pm :
    With([i \in 1..Min(Len(pm), FallbackCap) |-> fallbackBar(text, i - 1, pm[i])],
         LAMBDA pushed : Flatten([k \in 1..Len(pushed) |-> <<pushed[k]>>], 1, Len(pushed))))

\* usage.bars with the fallback run whatever the labeled-section parser
\* pushed
usageBarsBothParsers(text) == labeledBars(text) \o fallbackBars(text)

\* usage.bars when the script returns: the fallback runs only if the
\* labeled-section parser pushed nothing
usageBars(text) ==
  With(labeledBars(text), LAMBDA labeled :
    IF Len(labeled) = 0 THEN fallbackBars(text) ELSE labeled)

-----------------------------------------------------------------------------
(* Document-level metadata and the script's result (scraper.ts:189-204,      *)
(* 366-410)                                                                 *)

LowerLetters ==
  {"a", "b", "c", "d", "e", "f", "g", "h", "i", "j", "k", "l", "m",
   "n", "o", "p", "q", "r", "s", "t", "u", "v", "w", "x", "y", "z"}
UpperLetters ==
  {"A", "B", "C", "D", "E", "F", "G", "H", "I", "J", "K", "L", "M",
   "N", "O", "P", "Q", "R", "S", "T", "U", "V", "W", "X", "Y", "Z"}

RWs == RSet(WhiteSpace)     \* \s
RDigit == RSet(Digits)      \* \d
RRestOfLine == RStar(RNotSet({"\n"}))   \* [^\n]*

resetPatterns ==
  << \* /Resets\s+in\s+(\d+\s*hr?\s*\d*\s*min[^\n]*)/i
     RSeq(<<RLitI(<<"R", "e", "s", "e", "t", "s">>), RPlus(RWs), RLitI(<<"i", "n">>), RPlus(RWs),
            RGroup(RSeq(<<RPlus(RDigit), RStar(RWs), RLitI(<<"h">>), ROpt(RLitI(<<"r">>)),
                          RStar(RWs), RStar(RDigit), RStar(RWs), RLitI(<<"m", "i", "n">>),
                          RRestOfLine>>))>>),
     \* /Resets\s+(Mon|Tue|Wed|Thu|Fri|Sat|Sun)[^\n]*/i
     RSeq(<<RLitI(<<"R", "e", "s", "e", "t", "s">>), RPlus(RWs),
            RGroup(RAny(<<RLitI(<<"M", "o", "n">>), RLitI(<<"T", "u", "e">>), RLitI(<<"W", "e", "d">>), RLitI(<<"T", "h", "u">>),
                          RLitI(<<"F", "r", "i">>), RLitI(<<"S", "a", "t">>), RLitI(<<"S", "u", "n">>)>>)),
            RRestOfLine>>),
     \* /resets?\s*(?:on|in|:)?\s*([A-Za-z]+\s+\d+)/i
     RSeq(<<RLitI(<<"r", "e", "s", "e", "t">>), ROpt(RLitI(<<"s">>)), RStar(RWs),
            ROpt(RAny(<<RLitI(<<"o", "n">>), RLitI(<<"i", "n">>), RLitI(<<":">>)>>)), RStar(RWs),
            RGroup(RSeq(<<RPlus(RSetI(LowerLetters)), RPlus(RWs), RPlus(RDigit)>>))>>),
     \* /in\s+(\d+)\s*days?/i
     RSeq(<<RLitI(<<"i", "n">>), RPlus(RWs), RGroup(RPlus(RDigit)), RStar(RWs),
            RLitI(<<"d", "a", "y">>), ROpt(RLitI(<<"s">>))>>) >>

planPatterns ==
  << \* /Claude\s+(Max|Pro|Team|Enterprise|Free)/i
     RSeq(<<RLitI(<<"C", "l", "a", "u", "d", "e">>), RPlus(RWs),
            RGroup(RAny(<<RLitI(<<"M", "a", "x">>), RLitI(<<"P", "r", "o">>), RLitI(<<"T", "e", "a", "m">>),
                          RLitI(<<"E", "n", "t", "e", "r", "p", "r", "i", "s", "e">>), RLitI(<<"F", "r", "e", "e">>)>>))>>),
     \* /(Max|Pro|Team|Enterprise)\s+Plan/i
     RSeq(<<RGroup(RAny(<<RLitI(<<"M", "a", "x">>), RLitI(<<"P", "r", "o">>), RLitI(<<"T", "e", "a", "m">>),
                          RLitI(<<"E", "n", "t", "e", "r", "p", "r", "i", "s", "e">>)>>)),
            RPlus(RWs), RLitI(<<"P", "l", "a", "n">>)>>),
     \* /Plan:\s*(Max|Pro|Team|Enterprise|Free)/i
     RSeq(<<RLitI(<<"P", "l", "a", "n", ":">>), RStar(RWs),
            RGroup(RAny(<<RLitI(<<"M", "a", "x">>), RLitI(<<"P", "r", "o">>), RLitI(<<"T", "e", "a", "m">>),
                          RLitI(<<"E", "n", "t", "e", "r", "p", "r", "i", "s", "e">>), RLitI(<<"F", "r", "e", "e">>)>>))>>) >>

\* /[a-zA-Z0-9._%+-]+@[a-zA-Z0-9.-]+\.[a-zA-Z]{2,}/
emailRe ==
  LET letter == RSet(LowerLetters \cup UpperLetters)
  IN  RSeq(<<RPlus(RSet(LowerLetters \cup UpperLetters \cup Digits
                         \cup {".", "_", "%", "+", "-"})),
             RSet({"@"}),
             RPlus(RSet(LowerLetters \cup UpperLetters \cup Digits \cup {".", "-"})),
             RSet({"."}), letter, letter, RStar(letter)>>)

\* the first pattern of the list that matches: its match, or NoMatch
RECURSIVE firstMatch(_, _, _)
firstMatch(text, patterns, k) ==
  IF k > Len(patterns) THEN NoMatch
  ELSE With(match(text, patterns[k]), LAMBDA m :
         IF m.found THEN m ELSE firstMatch(text, patterns, k + 1))

generalResetDate(text) ==
  With(firstMatch(text, resetPatterns, 1), LAMBDA m :
    IF m.found THEN Some(trim(m.m0)) ELSE None)

planName(text) ==
  With(firstMatch(text, planPatterns, 1), LAMBDA m :
    IF m.found THEN Some(m.m1)
    ELSE IF includes(text, <<"E", "x", "t", "r", "a", " ", "u", "s", "a", "g", "e">>) \/ includes(text, <<"A", "l", "l", " ", "m", "o", "d", "e", "l", "s">>)
    THEN Some(<<"M", "a", "x">>)
    ELSE IF includes(text, <<"P", "r", "o", " ", "f", "e", "a", "t", "u", "r", "e", "s">>) THEN Some(<<"P", "r", "o">>)
    ELSE None)

emailAddress(text) ==
  With(match(text, emailRe), LAMBDA m : IF m.found THEN Some(m.m0) ELSE None)

RawTextSpan == 2000    \* text.substring(0, 2000)

\* the login check with either of the two phrases taken as enough
onLoginPageEitherPhrase(href, text) ==
  \/ includes(href, <<"/", "l", "o", "g", "i", "n">>)
  \/ includes(href, <<"/", "s", "i", "g", "n", "u", "p">>)
  \/ includes(text, <<"W", "e", "l", "c", "o", "m", "e", " ", "b", "a", "c", "k">>)
  \/ includes(text, <<"C", "o", "n", "t", "i", "n", "u", "e", " ", "w", "i", "t", "h">>)

\* "Check if on login page": href is window.location.href, text is
\* document.body.innerText
onLoginPage(href, text) ==
  \/ includes(href, <<"/", "l", "o", "g", "i", "n">>)
  \/ includes(href, <<"/", "s", "i", "g", "n", "u", "p">>)
  \/ (includes(text, <<"W", "e", "l", "c", "o", "m", "e", " ", "b", "a", "c", "k">>) /\ includes(text, <<"C", "o", "n", "t", "i", "n", "u", "e", " ", "w", "i", "t", "h">>))

\* the object the script serialises. JSON.stringify and JSON.parse keep its
\* strings, integers, booleans, nulls and arrays as they are.
extractUsage(href, text) ==
  IF onLoginPage(href, text)
  THEN [bars |-> <<>>, resetDate |-> None, isAuthenticated |-> FALSE,
        rawText |-> <<>>, plan |-> None, email |-> None]
  ELSE [bars |-> usageBars(text), resetDate |-> generalResetDate(text),
        isAuthenticated |-> TRUE, rawText |-> substring(text, 0, RawTextSpan),
        plan |-> planName(text), email |-> emailAddress(text)]

-----------------------------------------------------------------------------
(* The values scrapeClaudeUsage resolves to (scraper.ts:143-149, 439-460).   *)
(* lastUpdated, the time of the call, is left out.                          *)

ZeroBar == [used |-> 0, limit |-> 0, percentage |-> 0]

\* the result for a login redirect; it has no bars, plan or email property
notAuthenticatedResult ==
  [standard |-> ZeroBar, advanced |-> ZeroBar, bars |-> None, resetDate |-> None,
   isAuthenticated |-> FALSE, plan |-> None, email |-> None]

\* "Convert bars array to our format"
convertBar(bar) ==
  [used |-> bar.value, limit |-> bar.max, percentage |-> bar.percentage,
   label |-> bar.label,
   \* bar.resetInfo || bar.context
   context |-> IF bar.resetInfo # <<>> THEN Some(bar.resetInfo) ELSE bar.context]

convertResult(parsed) ==
  With(parsed, LAMBDA usage :
    With(Flatten([k \in 1..Len(usage.bars) |-> <<convertBar(usage.bars[k])>>],
                 1, Len(usage.bars)), LAMBDA bars :
      [standard |-> IF Len(bars) >= 1 THEN bars[1] ELSE ZeroBar,
       advanced |-> IF Len(bars) >= 2 THEN bars[2] ELSE ZeroBar,
       bars |-> Some(bars),
       resetDate |-> usage.resetDate,
       isAuthenticated |-> usage.isAuthenticated,
       plan |-> usage.plan,
       email |-> usage.email]))

\* the bars of a result, none when it has no bars property
barsOf(result) == IF result.bars = None THEN <<>> ELSE result.bars[1]

-----------------------------------------------------------------------------
(* The billing script of scrapeBillingInfo (scraper.ts:591-627). The credit  *)
(* balance, a decimal number with two fraction digits, is held in cents.    *)

RMoney ==   \* ([\d,]+\.\d{2})
  RGroup(RSeq(<<RPlus(RSet(Digits \cup {","})), RSet({"."}), RDigit, RDigit>>))

balancePatterns ==
  << \* /(?:Credit\s*balance|Balance|Remaining)[:\s]*\$?([\d,]+\.\d{2})/i
     RSeq(<<RAny(<<RSeq(<<RLitI(<<"C", "r", "e", "d", "i", "t">>), RStar(RWs), RLitI(<<"b", "a", "l", "a", "n", "c", "e">>)>>),
                   RLitI(<<"B", "a", "l", "a", "n", "c", "e">>), RLitI(<<"R", "e", "m", "a", "i", "n", "i", "n", "g">>)>>),
            RStar(RSet(WhiteSpace \cup {":"})), ROpt(RSet({"$"})), RMoney>>),
     \* /\$([\d,]+\.\d{2})\s*(?:remaining|credit|balance)/i
     RSeq(<<RSet({"$"}), RMoney, RStar(RWs),
            RAny(<<RLitI(<<"r", "e", "m", "a", "i", "n", "i", "n", "g">>), RLitI(<<"c", "r", "e", "d", "i", "t">>), RLitI(<<"b", "a", "l", "a", "n", "c", "e">>)>>)>>),
     \* /US\$([\d,]+\.\d{2})/
     RSeq(<<RLit(<<"U", "S", "$">>), RMoney>>),
     \* /\$([\d,]+\.\d{2})/
     RSeq(<<RSet({"$"}), RMoney>>) >>

\* parseFloat(m.replace(/,/g, '')) of digits, commas, a point and two digits
parseBalance(m) ==
  parseInt(SelectSeq(m, LAMBDA c : c \in Digits))

extractBilling(text) ==
  IF \/ includes(text, <<"S", "i", "g", "n", " ", "i", "n", " ", "o", "r", " ", "c", "r", "e", "a", "t", "e", " ", "a", " ", "d", "e", "v", "e", "l", "o", "p", "e", "r", " ", "a", "c", "c", "o", "u", "n", "t">>)
     \/ (includes(text, <<"C", "o", "n", "t", "i", "n", "u", "e", " ", "w", "i", "t", "h", " ", "G", "o", "o", "g", "l", "e">>) /\ includes(text, <<"C", "o", "n", "t", "i", "n", "u", "e", " ", "w", "i", "t", "h", " ", "e", "m", "a", "i", "l">>))
  THEN [creditBalance |-> None, currency |-> <<"U", "S", "D">>, needsLogin |-> TRUE]
  ELSE With(firstMatch(text, balancePatterns, 1), LAMBDA m :
         [creditBalance |-> IF m.found THEN Some(parseBalance(m.m1)) ELSE None,
          currency |-> <<"U", "S", "D">>, needsLogin |-> FALSE])

\* the BillingInfo the call resolves to when no login is needed
convertBilling(parsed) ==
  [creditBalance |-> parsed.creditBalance, currency |-> parsed.currency]

-----------------------------------------------------------------------------
(* The pages the hidden windows can show                                    *)

CLAUDE_USAGE_URL == <<"h", "t", "t", "p", "s", ":", "/", "/", "c", "l", "a", "u", "d", "e", ".", "a", "i", "/", "s", "e", "t", "t", "i", "n", "g", "s", "/", "u", "s", "a", "g", "e">>
CLAUDE_BILLING_URL == <<"h", "t", "t", "p", "s", ":", "/", "/", "p", "l", "a", "t", "f", "o", "r", "m", ".", "c", "l", "a", "u", "d", "e", ".", "c", "o", "m", "/", "s", "e", "t", "t", "i", "n", "g", "s", "/", "b", "i", "l", "l", "i", "n", "g">>

\* what a usage window can hold after a navigation: the URL and the text of
\* the page
UsagePages ==
  << [url |-> CLAUDE_USAGE_URL,
      text |-> <<"C", "l", "a", "u", "d", "e", " ", "M", "a", "x", "\n", "m", "e", "@", "x", ".", "i", "o", "\n", "C", "u", "r", "r", "e", "n", "t", " ", "s", "e", "s", "s", "i", "o", "n", "\n", "R", "e", "s", "e", "t", "s", " ", "S", "a", "t", "\n", "4", "5", "%", " ", "u", "s", "e", "d">>],
     [url |-> CLAUDE_USAGE_URL,
      text |-> <<"W", "e", "l", "c", "o", "m", "e", " ", "b", "a", "c", "k", "\n", "C", "o", "n", "t", "i", "n", "u", "e", " ", "w", "i", "t", "h", " ", "G", "o", "o", "g", "l", "e", "\n", "A", "l", "l", " ", "m", "o", "d", "e", "l", "s", "\n", "R", "e", "s", "e", "t", "s", " ", "S", "a", "t", "\n", "4", "5", "%", " ", "u", "s", "e", "d", "\n", "m", "e", "@", "x", ".", "i", "o">>],
     [url |-> CLAUDE_USAGE_URL,
      text |-> <<"W", "e", "l", "c", "o", "m", "e", " ", "b", "a", "c", "k", "\n", "P", "r", "o", " ", "f", "e", "a", "t", "u", "r", "e", "s", "\n", "7", "%">>],
     [url |-> <<"h", "t", "t", "p", "s", ":", "/", "/", "c", "l", "a", "u", "d", "e", ".", "a", "i", "/", "l", "o", "g", "i", "n", "?", "r", "e", "t", "u", "r", "n", "T", "o", "=", "/", "s", "e", "t", "t", "i", "n", "g", "s", "/", "u", "s", "a", "g", "e">>,
      text |-> <<"C", "l", "a", "u", "d", "e", " ", "P", "r", "o", "\n", "m", "e", "@", "x", ".", "i", "o", "\n", "A", "l", "l", " ", "m", "o", "d", "e", "l", "s", "\n", "R", "e", "s", "e", "t", "s", " ", "S", "a", "t", "\n", "4", "5", "%", " ", "u", "s", "e", "d">>],
     [url |-> <<"h", "t", "t", "p", "s", ":", "/", "/", "c", "l", "a", "u", "d", "e", ".", "a", "i", "/", "s", "i", "g", "n", "u", "p">>,
      text |-> <<>>] >>

BillingPages ==
  << [url |-> CLAUDE_BILLING_URL, text |-> <<"C", "r", "e", "d", "i", "t", " ", "b", "a", "l", "a", "n", "c", "e", ":", " ", "$", "1", ",", "2", "3", "4", ".", "5", "0">>],
     [url |-> CLAUDE_BILLING_URL, text |-> <<"S", "i", "g", "n", " ", "i", "n", " ", "o", "r", " ", "c", "r", "e", "a", "t", "e", " ", "a", " ", "d", "e", "v", "e", "l", "o", "p", "e", "r", " ", "a", "c", "c", "o", "u", "n", "t">>],
     [url |-> <<"h", "t", "t", "p", "s", ":", "/", "/", "p", "l", "a", "t", "f", "o", "r", "m", ".", "c", "l", "a", "u", "d", "e", ".", "c", "o", "m", "/", "l", "o", "g", "i", "n">>, text |-> <<"$", "5", ".", "0", "0", " ", "r", "e", "m", "a", "i", "n", "i", "n", "g">>],
     [url |-> CLAUDE_BILLING_URL, text |-> <<"L", "o", "a", "d", "i", "n", "g">>] >>

\* url.includes('/login') || url.includes('/signup')
isLoginUrl(url) == includes(url, <<"/", "l", "o", "g", "i", "n">>) \/ includes(url, <<"/", "s", "i", "g", "n", "u", "p">>)

-----------------------------------------------------------------------------
(* The main process (electron/main.ts) and the renderer (src/App.tsx).      *)
(* Settings hold the refresh interval in seconds and the notification       *)
(* threshold in percent; autoStart has no part in what is modelled here.    *)
(* A usage result is <<>> for null or <<r>> with r.isAuthenticated and      *)
(* r.bars, a sequence of [label, percentage]. A log entry's timestamp is a  *)
(* clock that ticks with every addLog.                                      *)

MaxRefreshes == 3       \* invocations of refreshAllData
MaxChecks == 3          \* invocations of checkAndNotify on its own
MaxLogged == 22         \* invocations of addLog on its own
MaxFailures == 1        \* 'Refresh failed' entries among them

MAX_LOGS == 20
RecentLogs == 6

\* the defaults of the store
defaults == [refreshInterval |-> 60, notificationThreshold |-> 80]

\* what the Settings panel can hand to app:save-settings, and so what the
\* store can hold from an earlier run: the number inputs take any typed
\* number, whatever their min and max attributes say
Settings ==
  { [refreshInterval |-> 5, notificationThreshold |-> 80],
    [refreshInterval |-> 60, notificationThreshold |-> 0] }

\* addLog that drops the oldest entry one entry early
addLogShiftsEarly(entries, message) ==
  With(Append(entries, [timestamp |-> IF entries = <<>> THEN 1
                                      ELSE entries[Len(entries)].timestamp + 1,
                        message |-> message]),
       LAMBDA pushed : IF Len(pushed) >= MAX_LOGS THEN Tail(pushed) ELSE pushed)

\* addLog(message), lines 85-95
addLog(entries, message) ==
  With(Append(entries, [timestamp |-> IF entries = <<>> THEN 1
                                      ELSE entries[Len(entries)].timestamp + 1,
                        message |-> message]),
       LAMBDA pushed : IF Len(pushed) > MAX_LOGS THEN Tail(pushed) ELSE pushed)

\* getRecentLogs(count): activityLogs.slice(-count)
getRecentLogs(entries, count) ==
  IF count = 0 \/ count >= Len(entries) THEN entries
  ELSE SubSeq(entries, Len(entries) - count + 1, Len(entries))

\* checkAndNotify(claudeUsage), lines 349-376, as the n-th invocation and
\* from bar k on; st holds the map, the notifications shown and the log
RECURSIVE checkAndNotify(_, _, _, _, _)
checkAndNotify(threshold, bars, k, n, st) ==
  IF threshold = 0 \/ k > Len(bars) THEN st
  ELSE
    With([label |-> IF bars[k].label = "" THEN "Usage" ELSE bars[k].label,
          percentage |-> bars[k].percentage],
    LAMBDA bar :
      With(IF /\ bar.percentage >= threshold
              /\ (IF bar.label \in DOMAIN st.last THEN st.last[bar.label] ELSE 0) < threshold
           THEN [last |-> [l \in DOMAIN st.last \cup {bar.label} |->
                             IF l = bar.label THEN bar.percentage ELSE st.last[l]],
                 shown |-> Append(st.shown, [label |-> bar.label,
                                             percentage |-> bar.percentage,
                                             threshold |-> threshold,
                                             check |-> n]),
                 logs |-> addLog(st.logs, <<"Notification", bar.label, bar.percentage>>)]
           ELSE st,
      LAMBDA notified :
        checkAndNotify(threshold, bars, k + 1, n,
          IF bar.percentage < threshold - 10
          THEN [notified EXCEPT
                  !.last = [l \in DOMAIN notified.last \cup {bar.label} |->
                              IF l = bar.label THEN 0 ELSE notified.last[l]]]
          ELSE notified)))

\* refreshAllData() up to its await, lines 378-416: the log entry and the two
\* scrapes' guards (scraper.ts:96-100, 526-530). A scrape that is turned away
\* has resolved to null, and its then-callback, and the send if both were
\* turned away, run before any other event. The main window exists from
\* app.whenReady on. The renderer's listener (App.tsx:339-347) is run with
\* the send: setClaudeUsage(data.claudeUsage), setLogs(data.logs).
refreshAllData ==
  /\ Len(refreshes) < MaxRefreshes
  /\ isScrapingUsage' = TRUE
  /\ isScrapingBilling' = TRUE
  /\ \E logged \in {With(addLog(activityLogs, <<"Refreshing data...">>), LAMBDA l0 :
                    With(IF isScrapingUsage
                         THEN addLog(l0, <<"Usage: Skipped (in progress)">>) ELSE l0,
                    LAMBDA l1 :
                      IF isScrapingBilling
                      THEN addLog(l1, <<"Billing: Skipped (in progress)">>) ELSE l1))} :
       /\ activityLogs' = logged
       /\ IF isScrapingUsage /\ isScrapingBilling
          THEN /\ claudeUsage' = None
               /\ logs' = getRecentLogs(logged, RecentLogs)
          ELSE UNCHANGED <<claudeUsage, logs>>
  /\ refreshes' = Append(refreshes,
       [usage |-> IF isScrapingUsage THEN "skipped" ELSE "pending",
        billing |-> IF isScrapingBilling THEN "skipped" ELSE "pending",
        claudeUsage |-> None])
  /\ UNCHANGED <<lastNotifiedPercentages, notifications, checked,
                 scraperWindow, billingWindow, usageCalls, billingCalls, usageWin,
                 billingWin, usageLoads, billingLoads, page, extracted,
                 platformLoginWindow, platformLogins>>

\* startAutoRefresh without its clearInterval
startAutoRefreshKeepsTimer(settings) ==
  /\ timers' = Append(timers, [period |-> settings.refreshInterval * 1000, active |-> TRUE])
  /\ refreshInterval' = Len(timers) + 1
  /\ refreshAllData

\* startAutoRefresh(), lines 485-499
startAutoRefresh(settings) ==
  /\ timers' = Append(IF refreshInterval # 0
                      THEN [timers EXCEPT ![refreshInterval].active = FALSE]
                      ELSE timers,
                      [period |-> settings.refreshInterval * 1000, active |-> TRUE])
  /\ refreshInterval' = Len(timers) + 1
  /\ refreshAllData

\* app.whenReady().then(...), lines 573-584
WhenReady ==
  /\ timers = <<>>
  /\ startAutoRefresh(store)
  /\ UNCHANGED store

\* ipcMain.handle('app:save-settings'), lines 543-556, while the
\* application runs
SaveSettings(settings) ==
  /\ refreshInterval # 0
  /\ timers[refreshInterval].active
  /\ store' = settings
  /\ startAutoRefresh(settings)

\* ipcMain.handle('app:refresh-all'), lines 523-525: the renderer's
\* refreshData on mount and on its refresh button
RefreshAll ==
  /\ refreshInterval # 0
  /\ timers[refreshInterval].active
  /\ refreshAllData
  /\ UNCHANGED <<store, refreshInterval, timers>>

\* the interval timer t fires: setInterval(refreshAllData, intervalMs)
TimerFires(t) ==
  /\ timers[t].active
  /\ refreshAllData
  /\ UNCHANGED <<store, refreshInterval, timers>>

\* the usage scrape of refresh r resolves to result (one of the resolving
\* paths of scraper.ts:121-182, 414-478, each of which clears the flag), its
\* then-callback runs (lines 385-396), and if the billing scrape is done the
\* message is sent (lines 418-423) and handled by the renderer
UsageResolves(r, result) ==
  /\ refreshes[r].usage = "pending"
  /\ isScrapingUsage' = FALSE
  /\ refreshes' = [refreshes EXCEPT
                     ![r].usage = "done",
                     ![r].claudeUsage = IF refreshes[r].billing = "pending"
                                        THEN result ELSE None]
  /\ \E st \in {With([last |-> lastNotifiedPercentages, shown |-> notifications,
                      logs |-> activityLogs], LAMBDA st0 :
                  IF result = None
                  THEN [st0 EXCEPT !.logs = addLog(@, <<"Usage: Skipped (in progress)">>)]
                  ELSE IF result[1].isAuthenticated
                  THEN checkAndNotify(store.notificationThreshold, result[1].bars, 1,
                         Len(checked) + 1,
                         [st0 EXCEPT !.logs = addLog(@, <<"Usage: bars fetched",
                                                          Len(result[1].bars)>>)])
                  ELSE [st0 EXCEPT !.logs = addLog(@, <<"Usage: Not authenticated">>)])} :
       /\ lastNotifiedPercentages' = st.last
       /\ notifications' = st.shown
       /\ activityLogs' = st.logs
       /\ IF refreshes[r].billing # "pending"
          THEN /\ claudeUsage' = result
               /\ logs' = getRecentLogs(st.logs, RecentLogs)
          ELSE UNCHANGED <<claudeUsage, logs>>
  /\ UNCHANGED <<store, refreshInterval, timers, checked, isScrapingBilling,
                 scraperWindow, billingWindow, usageCalls, billingCalls, usageWin,
                 billingWin, usageLoads, billingLoads, page, extracted,
                 platformLoginWindow, platformLogins>>

\* the billing scrape of refresh r resolves to result (scraper.ts:551-588,
\* 629-672), its then-callback runs (lines 401-411), and if the usage scrape
\* is done the message is sent and handled by the renderer
BillingResolves(r, result) ==
  /\ refreshes[r].billing = "pending"
  /\ isScrapingBilling' = FALSE
  /\ refreshes' = [refreshes EXCEPT ![r].billing = "done", ![r].claudeUsage = None]
  /\ \E logged \in {IF result = None
                    THEN addLog(activityLogs, <<"Billing: Skipped (in progress)">>)
                    ELSE addLog(activityLogs, <<"Billing", result[1].creditBalance>>)} :
       /\ activityLogs' = logged
       /\ IF refreshes[r].usage # "pending"
          THEN /\ claudeUsage' = refreshes[r].claudeUsage
               /\ logs' = getRecentLogs(logged, RecentLogs)
          ELSE UNCHANGED <<claudeUsage, logs>>
  /\ UNCHANGED <<store, refreshInterval, timers, isScrapingUsage,
                 lastNotifiedPercentages, notifications, checked,
                 scraperWindow, billingWindow, usageCalls, billingCalls, usageWin,
                 billingWin, usageLoads, billingLoads, page, extracted,
                 platformLoginWindow, platformLogins>>

\* app.on('before-quit'), lines 591-595: the timer is cleared, the handle
\* is kept
BeforeQuit ==
  /\ refreshInterval # 0
  /\ timers[refreshInterval].active
  /\ timers' = [timers EXCEPT ![refreshInterval].active = FALSE]
  /\ UNCHANGED <<store, refreshInterval, activityLogs, lastNotifiedPercentages,
                 notifications, checked, refreshes, claudeUsage, logs,
                 scraperVars, page, extracted, platformLoginWindow, platformLogins>>

\* the main process, the renderer and the platform login at start, with
\* settings in the store
appInit(settings) ==
  /\ store = settings
  /\ refreshInterval = 0
  /\ timers = <<>>
  /\ activityLogs = <<>>
  /\ lastNotifiedPercentages = <<>>
  /\ notifications = <<>>
  /\ checked = <<>>
  /\ refreshes = <<>>
  /\ claudeUsage = None
  /\ logs = <<>>
  /\ platformLoginWindow = 0
  /\ platformLogins = <<>>

-----------------------------------------------------------------------------
(* openPlatformLoginWindow (scraper.ts:679-762). A call that creates a      *)
(* window owns the window of its own number; platformLoginWindow is 0 for   *)
(* null or the number of the open window. The page of a window is "signin"  *)
(* (billing URL, sign-in text), "billing" (billing URL, no sign-in text) or *)
(* "elsewhere" (another URL). timers, evals and closers count the pending   *)
(* setTimeout(checkLoginStatus), the pending executeJavaScript per window   *)
(* and the pending setTimeout(close) of the call's closure; seen lists what *)
(* its checks observed, and upto is the length of seen when it resolved.    *)

MaxLogins == 2          \* calls of openPlatformLoginWindow
MaxPlatformLoads == 2   \* did-finish-load events of all windows
MaxSeen == 3            \* evaluations the checks start that come back with an answer

\* the 'closed' handler of window w, lines 702-705
platformClosed(logins, w) ==
  [logins EXCEPT ![w].state = "closed",
                 ![w].resolved = Some(logins[w].hasLoggedIn),
                 ![w].upto = Len(logins[w].seen)]

\* openPlatformLoginWindow(), lines 679-705 and 756-760
OpenPlatformLoginWindow ==
  /\ Len(platformLogins) < MaxLogins
  /\ IF platformLoginWindow # 0 /\ platformLogins[platformLoginWindow].state = "open"
     THEN /\ platformLogins' = Append(platformLogins,
                [made |-> FALSE, state |-> "none", page |-> "loading", loads |-> 0,
                 hasLoggedIn |-> FALSE, wasOnLoginPage |-> FALSE, checkCount |-> 0,
                 timers |-> 0, evals |-> <<>>, closers |-> 0,
                 seen |-> <<>>, resolved |-> Some(FALSE), upto |-> 0])
          /\ UNCHANGED platformLoginWindow
     ELSE /\ platformLogins' = Append(platformLogins,
                [made |-> TRUE, state |-> "open", page |-> "loading", loads |-> 0,
                 hasLoggedIn |-> FALSE, wasOnLoginPage |-> FALSE, checkCount |-> 0,
                 timers |-> 0, evals |-> <<>>, closers |-> 0,
                 seen |-> <<>>, resolved |-> None, upto |-> 0])
          /\ platformLoginWindow' = Len(platformLogins) + 1
  /\ UNCHANGED <<scraperVars, page, extracted, mainVars>>

\* window k finishes loading the page p: the did-finish-load handler, lines
\* 756-758, arms a timer for checkLoginStatus
PlatformDidFinishLoad(k, p) ==
  /\ platformLogins[k].state = "open"
  /\ Cardinality({c \in (1..Len(platformLogins)) \X (1..MaxPlatformLoads) :
                    c[2] <= platformLogins[c[1]].loads}) < MaxPlatformLoads
  /\ platformLogins' = [platformLogins EXCEPT ![k].page = p,
                                              ![k].loads = @ + 1,
                                              ![k].timers = @ + 1]
  /\ UNCHANGED <<platformLoginWindow, scraperVars, page, extracted, mainVars>>

\* a timer of call k runs checkLoginStatus up to its await, lines 708-719 and
\* 749-752: it looks at the module's window, whichever call made it
CheckLoginStatus(k) ==
  /\ platformLogins[k].timers > 0
  /\ IF platformLoginWindow = 0
     THEN platformLogins' = [platformLogins EXCEPT ![k].timers = @ - 1]
     ELSE IF platformLogins[platformLoginWindow].page \in {"signin", "billing"}
     THEN /\ Cardinality({c \in (1..Len(platformLogins)) \X (1..MaxSeen) :
                            c[2] <= Len(platformLogins[c[1]].seen)
                                      + Len(platformLogins[c[1]].evals)}) < MaxSeen
          /\ platformLogins' = [platformLogins EXCEPT
                                  ![k].timers = @ - 1,
                                  ![k].evals = Append(@, platformLoginWindow)]
     ELSE UNCHANGED platformLogins
  /\ UNCHANGED <<platformLoginWindow, scraperVars, page, extracted, mainVars>>

\* checkLoginStatus that takes two checks without sign-in text for a login
CheckEvaluatedAfterTwo(k, e, throws) ==
  /\ e \in 1..Len(platformLogins[k].evals)
  /\ \E w \in {platformLogins[k].evals[e]} :
     \E rest \in {[i \in 1..(Len(platformLogins[k].evals) - 1) |->
                     platformLogins[k].evals[IF i < e THEN i ELSE i + 1]]} :
     \E again \in {IF platformLoginWindow # 0 THEN 1 ELSE 0} :
       platformLogins' =
         IF throws
         THEN [platformLogins EXCEPT ![k].evals = rest, ![k].timers = @ + again]
         ELSE IF platformLogins[w].page = "signin"
         THEN [platformLogins EXCEPT ![k].evals = rest,
                                     ![k].seen = Append(@, "login"),
                                     ![k].wasOnLoginPage = TRUE,
                                     ![k].timers = @ + again]
         ELSE IF platformLogins[k].wasOnLoginPage
         THEN [platformLogins EXCEPT ![k].evals = rest,
                                     ![k].seen = Append(@, "app"),
                                     ![k].hasLoggedIn = TRUE,
                                     ![k].closers = @ + 1]
         ELSE IF platformLogins[k].checkCount + 1 >= 2
         THEN [platformLogins EXCEPT ![k].evals = rest,
                                     ![k].seen = Append(@, "app"),
                                     ![k].checkCount = @ + 1,
                                     ![k].hasLoggedIn = TRUE,
                                     ![k].closers = @ + 1]
         ELSE [platformLogins EXCEPT ![k].evals = rest,
                                     ![k].seen = Append(@, "app"),
                                     ![k].checkCount = @ + 1,
                                     ![k].timers = @ + again]
  /\ UNCHANGED <<platformLoginWindow, scraperVars, page, extracted, mainVars>>

\* the e-th pending executeJavaScript of call k comes back, with the answer
\* for the page its window shows or with an exception, and checkLoginStatus
\* goes on, lines 721-752
CheckEvaluated(k, e, throws) ==
  /\ e \in 1..Len(platformLogins[k].evals)
  /\ \E w \in {platformLogins[k].evals[e]} :
     \E rest \in {[i \in 1..(Len(platformLogins[k].evals) - 1) |->
                     platformLogins[k].evals[IF i < e THEN i ELSE i + 1]]} :
     \E again \in {IF platformLoginWindow # 0 THEN 1 ELSE 0} :
       platformLogins' =
         IF throws
         THEN [platformLogins EXCEPT ![k].evals = rest, ![k].timers = @ + again]
         ELSE IF platformLogins[w].page = "signin"
         THEN [platformLogins EXCEPT ![k].evals = rest,
                                     ![k].seen = Append(@, "login"),
                                     ![k].wasOnLoginPage = TRUE,
                                     ![k].timers = @ + again]
         ELSE IF platformLogins[k].wasOnLoginPage
         THEN [platformLogins EXCEPT ![k].evals = rest,
                                     ![k].seen = Append(@, "app"),
                                     ![k].hasLoggedIn = TRUE,
                                     ![k].closers = @ + 1]
         ELSE IF platformLogins[k].checkCount + 1 >= 3
         THEN [platformLogins EXCEPT ![k].evals = rest,
                                     ![k].seen = Append(@, "app"),
                                     ![k].checkCount = @ + 1,
                                     ![k].hasLoggedIn = TRUE,
                                     ![k].closers = @ + 1]
         ELSE [platformLogins EXCEPT ![k].evals = rest,
                                     ![k].seen = Append(@, "app"),
                                     ![k].checkCount = @ + 1,
                                     ![k].timers = @ + again]
  /\ UNCHANGED <<platformLoginWindow, scraperVars, page, extracted, mainVars>>

\* a close timer of call k goes off, lines 727-729 and 738-740:
\* platformLoginWindow?.close() closes the module's window, and its 'closed'
\* handler runs
CloseTimerFires(k) ==
  /\ platformLogins[k].closers > 0
  /\ \E armed \in {[platformLogins EXCEPT ![k].closers = @ - 1]} :
       IF platformLoginWindow = 0
       THEN /\ platformLogins' = armed
            /\ UNCHANGED platformLoginWindow
       ELSE /\ platformLogins' = platformClosed(armed, platformLoginWindow)
            /\ platformLoginWindow' = 0
  /\ UNCHANGED <<scraperVars, page, extracted, mainVars>>

\* the user closes window k
PlatformClosed(k) ==
  /\ platformLogins[k].state = "open"
  /\ platformLogins' = platformClosed(platformLogins, k)
  /\ platformLoginWindow' = 0
  /\ UNCHANGED <<scraperVars, page, extracted, mainVars>>

-----------------------------------------------------------------------------
(* scrapeClaudeUsage (scraper.ts:94-483). Each invocation is a record of     *)
(* usageCalls; its index is also the id of the window it creates.           *)
(*   accepted  the invocation passed the in-flight guard                    *)
(*   resolved  the closure variable `resolved`                              *)
(*   timer     the 30 s timeout: "none", "armed", "cleared", "fired"        *)
(*   settled   the promise has a value; value is <<>> for null              *)
(*   resolves  how many times the promise was given a value                 *)
(*   how, from the statement that settled it and the page it had read       *)
(* A window is "open" until close() is called on it, then "destroyed";      *)
(* page 0 is a window that shows nothing: before its first navigation, and  *)
(* once it is destroyed.                                                    *)

MaxCalls == 2           \* invocations of the two scrapes together
MaxLoads == 2           \* did-finish-load events per window

\* what executeJavaScript can come back with: the script's JSON string, an
\* empty value (the case `if (result)` tests for), or a rejection
EvalOutcomes == {"json", "empty", "throws"}

RejectedCall ==
  [accepted |-> FALSE, resolved |-> FALSE, timer |-> "none", settled |-> TRUE,
   value |-> None, resolves |-> 1, how |-> "guard", from |-> 0]

AcceptedCall ==
  [accepted |-> TRUE, resolved |-> FALSE, timer |-> "armed", settled |-> FALSE,
   value |-> None, resolves |-> 0, how |-> "pending", from |-> 0]

NoWindow == [state |-> "none", page |-> 0]
NewWindow == [state |-> "open", page |-> 0]

\* win && !win.isDestroyed() for the module-level reference w
isLive(wins, w) == w # 0 /\ wins[w].state # "destroyed"

\* w.close() on the window the module-level reference w points to
closeWindow(wins, w) ==
  IF w # 0 /\ wins[w].state = "open"
  THEN [wins EXCEPT ![w] = [state |-> "destroyed", page |-> 0]]
  ELSE wins

\* resolved = true; clearTimeout(timeout); resolve(value)
settle(call, value, how, from) ==
  [call EXCEPT !.resolved = TRUE,
               !.timer = IF how = "timeout" THEN "fired" ELSE "cleared",
               !.settled = TRUE,
               !.value = IF call.settled THEN call.value ELSE value,
               !.resolves = call.resolves + 1,
               !.how = IF call.settled THEN call.how ELSE how,
               !.from = IF call.settled THEN call.from ELSE from]

\* the hidden window emits events until it is destroyed
emitsEvents(win) == win.state = "open"

\* where a did-finish-load handler stands: in its 3 s wait, in
\* executeJavaScript, or returned
Waiting == "wait"
Evaluating == "eval"
Returned == "done"

\* what scrapeClaudeUsage makes of the script's answer on each page
UsageResults ==
  [p \in 1..Len(UsagePages) |->
     convertResult(extractUsage(UsagePages[p].url, UsagePages[p].text))]

\* what scrapeBillingInfo's script answers on each page
BillingResults ==
  [p \in 1..Len(BillingPages) |-> extractBilling(BillingPages[p].text)]

\* scrapeClaudeUsage() without the in-flight guard of lines 96-100
ScrapeClaudeUsageUnguarded ==
  /\ Len(usageCalls) + Len(billingCalls) < MaxCalls
  /\ isScrapingUsage' = TRUE
  /\ usageCalls' = Append(usageCalls, AcceptedCall)
  /\ usageWin' = Append(IF isLive(usageWin, scraperWindow)
                        THEN closeWindow(usageWin, scraperWindow)
                        ELSE usageWin, NewWindow)
  /\ scraperWindow' = Len(usageCalls) + 1
  /\ usageLoads' = Append(usageLoads, <<>>)
  /\ UNCHANGED <<isScrapingBilling, billingWindow, billingCalls, billingWin,
                 billingLoads, page, extracted, appVars>>

\* scrapeClaudeUsage(), lines 94-118 and 481
ScrapeClaudeUsage ==
  /\ Len(usageCalls) + Len(billingCalls) < MaxCalls
  /\ IF isScrapingUsage
     THEN /\ usageCalls' = Append(usageCalls, RejectedCall)
          /\ usageWin' = Append(usageWin, NoWindow)
          /\ UNCHANGED <<isScrapingUsage, scraperWindow>>
     ELSE /\ isScrapingUsage' = TRUE
          /\ usageCalls' = Append(usageCalls, AcceptedCall)
          /\ usageWin' = Append(IF isLive(usageWin, scraperWindow)
                                THEN closeWindow(usageWin, scraperWindow)
                                ELSE usageWin, NewWindow)
          /\ scraperWindow' = Len(usageCalls) + 1
  /\ usageLoads' = Append(usageLoads, <<>>)
  /\ UNCHANGED <<isScrapingBilling, billingWindow, billingCalls, billingWin,
                 billingLoads, page, extracted, appVars>>

\* a timeout callback that only logs: it neither resolves the call nor
\* releases the guard
UsageTimeoutOnlyLogs(k) ==
  /\ usageCalls[k].timer = "armed"
  /\ usageCalls' = [usageCalls EXCEPT ![k].timer = "fired"]
  /\ UNCHANGED <<isScrapingUsage, scraperWindow, usageWin>>
  /\ UNCHANGED <<usageLoads, isScrapingBilling, billingWindow, billingCalls,
                 billingWin, billingLoads, page, extracted, appVars>>

\* the timeout callback without `isScrapingUsage = false`
UsageTimeoutKeepsFlag(k) ==
  /\ usageCalls[k].timer = "armed"
  /\ IF ~usageCalls[k].resolved
     THEN /\ usageWin' = closeWindow(usageWin, scraperWindow)
          /\ scraperWindow' = 0
          /\ usageCalls' = [usageCalls EXCEPT ![k] = settle(@, None, "timeout", 0)]
          /\ UNCHANGED isScrapingUsage
     ELSE /\ usageCalls' = [usageCalls EXCEPT ![k].timer = "fired"]
          /\ UNCHANGED <<isScrapingUsage, scraperWindow, usageWin>>
  /\ UNCHANGED <<usageLoads, isScrapingBilling, billingWindow, billingCalls,
                 billingWin, billingLoads, page, extracted, appVars>>

\* the timeout callback of call k, lines 121-130
UsageTimeout(k) ==
  /\ usageCalls[k].timer = "armed"
  /\ IF ~usageCalls[k].resolved
     THEN /\ isScrapingUsage' = FALSE
          /\ usageWin' = closeWindow(usageWin, scraperWindow)
          /\ scraperWindow' = 0
          /\ usageCalls' = [usageCalls EXCEPT ![k] = settle(@, None, "timeout", 0)]
     ELSE /\ usageCalls' = [usageCalls EXCEPT ![k].timer = "fired"]
          /\ UNCHANGED <<isScrapingUsage, scraperWindow, usageWin>>
  /\ UNCHANGED <<usageLoads, isScrapingBilling, billingWindow, billingCalls,
                 billingWin, billingLoads, page, extracted, appVars>>

\* window k navigates to page p and emits did-navigate: the handler of
\* lines 133-152
UsageDidNavigate(k, p) ==
  /\ emitsEvents(usageWin[k])
  /\ LET url == UsagePages[p].url
         landed == [usageWin EXCEPT ![k].page = p]
     IN  IF isLoginUrl(url) /\ ~usageCalls[k].resolved
         THEN /\ isScrapingUsage' = FALSE
              /\ usageWin' = closeWindow(landed, scraperWindow)
              /\ scraperWindow' = 0
              /\ usageCalls' = [usageCalls EXCEPT
                                  ![k] = settle(@, Some(notAuthenticatedResult), "did-navigate", p)]
         ELSE /\ usageWin' = landed
              /\ UNCHANGED <<isScrapingUsage, scraperWindow, usageCalls>>
  /\ UNCHANGED <<usageLoads, isScrapingBilling, billingWindow, billingCalls,
                 billingWin, billingLoads, page, extracted, appVars>>

\* the page of window k changes without a did-navigate event (a navigation
\* inside the page, which Electron reports as did-navigate-in-page, or the
\* page re-rendering its text)
UsagePageChanges(k, p) ==
  /\ usageWin[k].state = "open"
  /\ usageWin[k].page # 0
  /\ usageWin[k].page # p
  /\ usageWin' = [usageWin EXCEPT ![k].page = p]
  /\ UNCHANGED <<isScrapingUsage, scraperWindow, usageCalls, usageLoads,
                 isScrapingBilling, billingWindow, billingCalls, billingWin,
                 billingLoads, page, extracted, appVars>>

\* did-finish-load of window k up to the 3 s wait, lines 154-179
UsageDidFinishLoad(k) ==
  /\ emitsEvents(usageWin[k])
  /\ usageWin[k].page # 0
  /\ Len(usageLoads[k]) < MaxLoads
  /\ IF usageCalls[k].resolved \/ ~isLive(usageWin, scraperWindow)
     THEN /\ usageLoads' = [usageLoads EXCEPT ![k] = Append(@, Returned)]
          /\ UNCHANGED <<isScrapingUsage, scraperWindow, usageCalls, usageWin>>
     ELSE LET current == usageWin[scraperWindow].page
          IN  IF isLoginUrl(UsagePages[current].url)
              THEN /\ isScrapingUsage' = FALSE
                   /\ usageWin' = closeWindow(usageWin, scraperWindow)
                   /\ scraperWindow' = 0
                   /\ usageCalls' = [usageCalls EXCEPT
                        ![k] = settle(@, Some(notAuthenticatedResult), "did-finish-load", current)]
                   /\ usageLoads' = [usageLoads EXCEPT ![k] = Append(@, Returned)]
              ELSE /\ usageLoads' = [usageLoads EXCEPT ![k] = Append(@, Waiting)]
                   /\ UNCHANGED <<isScrapingUsage, scraperWindow, usageCalls, usageWin>>
  /\ UNCHANGED <<isScrapingBilling, billingWindow, billingCalls, billingWin,
                 billingLoads, page, extracted, appVars>>

\* handler h of call k after the 3 s wait: the check of line 182 and the call
\* of executeJavaScript
UsageAfterWait(k, h) ==
  /\ usageLoads[k][h] = Waiting
  /\ IF usageCalls[k].resolved \/ ~isLive(usageWin, scraperWindow)
     THEN usageLoads' = [usageLoads EXCEPT ![k][h] = Returned]
     ELSE usageLoads' = [usageLoads EXCEPT ![k][h] = Evaluating]
  /\ UNCHANGED <<isScrapingUsage, scraperWindow, usageCalls, usageWin,
                 isScrapingBilling, billingWindow, billingCalls, billingWin,
                 billingLoads, page, extracted, appVars>>

\* the handler without the test of line 414: an answer that comes back after
\* the call has resolved is converted and resolved again
UsageEvaluatedResultUnchecked(k, h, out) ==
  /\ usageLoads[k][h] = Evaluating
  /\ usageLoads' = [usageLoads EXCEPT ![k][h] = Returned]
  /\ LET release(value, how, from) ==
           /\ isScrapingUsage' = FALSE
           /\ usageWin' = IF isLive(usageWin, scraperWindow)
                          THEN closeWindow(usageWin, scraperWindow) ELSE usageWin
           /\ scraperWindow' = 0
           /\ usageCalls' = [usageCalls EXCEPT ![k] = settle(@, value, how, from)]
     IN  IF out = "throws"
         THEN IF ~usageCalls[k].resolved THEN release(None, "catch", 0)
              ELSE UNCHANGED <<isScrapingUsage, scraperWindow, usageCalls, usageWin>>
         ELSE IF out = "json"
         THEN release(IF usageWin[k].page = 0 THEN None
                      ELSE Some(UsageResults[usageWin[k].page]), "script", usageWin[k].page)
         ELSE UNCHANGED <<isScrapingUsage, scraperWindow, usageCalls, usageWin>>
  /\ UNCHANGED <<isScrapingBilling, billingWindow, billingCalls, billingWin,
                 billingLoads, page, extracted, appVars>>

\* the handler with a catch block that lacks the test of line 468: a
\* rejection that arrives after the call has resolved releases the guard and
\* closes whatever window the module refers to
UsageEvaluatedCatchUnchecked(k, h, out) ==
  /\ usageLoads[k][h] = Evaluating
  /\ usageLoads' = [usageLoads EXCEPT ![k][h] = Returned]
  /\ LET release(value, how, from) ==
           /\ isScrapingUsage' = FALSE
           /\ usageWin' = IF isLive(usageWin, scraperWindow)
                          THEN closeWindow(usageWin, scraperWindow) ELSE usageWin
           /\ scraperWindow' = 0
           /\ usageCalls' = [usageCalls EXCEPT ![k] = settle(@, value, how, from)]
     IN  IF out = "throws"
         THEN release(None, "catch", 0)
         ELSE IF ~usageCalls[k].resolved /\ out = "json"
         THEN release(Some(UsageResults[usageWin[k].page]), "script", usageWin[k].page)
         ELSE UNCHANGED <<isScrapingUsage, scraperWindow, usageCalls, usageWin>>
  /\ UNCHANGED <<isScrapingBilling, billingWindow, billingCalls, billingWin,
                 billingLoads, page, extracted, appVars>>

\* the handler with a catch block that resolves to the empty result in
\* place of null
UsageEvaluatedCatchResolvesStub(k, h, out) ==
  /\ usageLoads[k][h] = Evaluating
  /\ usageLoads' = [usageLoads EXCEPT ![k][h] = Returned]
  /\ LET release(value, how, from) ==
           /\ isScrapingUsage' = FALSE
           /\ usageWin' = IF isLive(usageWin, scraperWindow)
                          THEN closeWindow(usageWin, scraperWindow) ELSE usageWin
           /\ scraperWindow' = 0
           /\ usageCalls' = [usageCalls EXCEPT ![k] = settle(@, value, how, from)]
     IN  IF out = "throws"
         THEN IF ~usageCalls[k].resolved
              THEN release(Some(convertResult(
                     [bars |-> <<>>, resetDate |-> None, isAuthenticated |-> TRUE,
                      rawText |-> <<>>, plan |-> None, email |-> None])), "catch", 0)
              ELSE UNCHANGED <<isScrapingUsage, scraperWindow, usageCalls, usageWin>>
         ELSE IF ~usageCalls[k].resolved /\ out = "json"
         THEN release(Some(UsageResults[usageWin[k].page]), "script", usageWin[k].page)
         ELSE UNCHANGED <<isScrapingUsage, scraperWindow, usageCalls, usageWin>>
  /\ UNCHANGED <<isScrapingBilling, billingWindow, billingCalls, billingWin,
                 billingLoads, page, extracted, appVars>>

\* handler h of call k when executeJavaScript has come back with out, lines
\* 414-478. The script reads the page its window shows when it runs; the
\* window of an unresolved call is the one the call created.
UsageEvaluated(k, h, out) ==
  /\ usageLoads[k][h] = Evaluating
  /\ usageLoads' = [usageLoads EXCEPT ![k][h] = Returned]
  /\ LET release(value, how, from) ==
           /\ isScrapingUsage' = FALSE
           /\ usageWin' = IF isLive(usageWin, scraperWindow)
                          THEN closeWindow(usageWin, scraperWindow) ELSE usageWin
           /\ scraperWindow' = 0
           /\ usageCalls' = [usageCalls EXCEPT ![k] = settle(@, value, how, from)]
     IN  IF out = "throws"
         THEN \* the catch block
              IF ~usageCalls[k].resolved THEN release(None, "catch", 0)
              ELSE UNCHANGED <<isScrapingUsage, scraperWindow, usageCalls, usageWin>>
         ELSE IF ~usageCalls[k].resolved /\ out = "json"
         THEN release(Some(UsageResults[usageWin[k].page]), "script", usageWin[k].page)
         ELSE UNCHANGED <<isScrapingUsage, scraperWindow, usageCalls, usageWin>>
  /\ UNCHANGED <<isScrapingBilling, billingWindow, billingCalls, billingWin,
                 billingLoads, page, extracted, appVars>>

-----------------------------------------------------------------------------
(* scrapeBillingInfo (scraper.ts:524-677), with billingCalls, billingWin and *)
(* billingLoads as for the usage scrape. It has no did-navigate handler.    *)

\* scrapeBillingInfo() guarded by the usage scrape's flag as well
ScrapeBillingInfoSharedGuard ==
  /\ Len(usageCalls) + Len(billingCalls) < MaxCalls
  /\ IF isScrapingBilling \/ isScrapingUsage
     THEN /\ billingCalls' = Append(billingCalls, RejectedCall)
          /\ billingWin' = Append(billingWin, NoWindow)
          /\ UNCHANGED <<isScrapingBilling, billingWindow>>
     ELSE /\ isScrapingBilling' = TRUE
          /\ billingCalls' = Append(billingCalls, AcceptedCall)
          /\ billingWin' = Append(IF isLive(billingWin, billingWindow)
                                  THEN closeWindow(billingWin, billingWindow)
                                  ELSE billingWin, NewWindow)
          /\ billingWindow' = Len(billingCalls) + 1
  /\ billingLoads' = Append(billingLoads, <<>>)
  /\ UNCHANGED <<isScrapingUsage, scraperWindow, usageCalls, usageWin,
                 usageLoads, page, extracted, appVars>>

\* scrapeBillingInfo(), lines 524-547 and 675
ScrapeBillingInfo ==
  /\ Len(usageCalls) + Len(billingCalls) < MaxCalls
  /\ IF isScrapingBilling
     THEN /\ billingCalls' = Append(billingCalls, RejectedCall)
          /\ billingWin' = Append(billingWin, NoWindow)
          /\ UNCHANGED <<isScrapingBilling, billingWindow>>
     ELSE /\ isScrapingBilling' = TRUE
          /\ billingCalls' = Append(billingCalls, AcceptedCall)
          /\ billingWin' = Append(IF isLive(billingWin, billingWindow)
                                  THEN closeWindow(billingWin, billingWindow)
                                  ELSE billingWin, NewWindow)
          /\ billingWindow' = Len(billingCalls) + 1
  /\ billingLoads' = Append(billingLoads, <<>>)
  /\ UNCHANGED <<isScrapingUsage, scraperWindow, usageCalls, usageWin,
                 usageLoads, page, extracted, appVars>>

\* the timeout callback of call k, lines 551-562
BillingTimeout(k) ==
  /\ billingCalls[k].timer = "armed"
  /\ IF ~billingCalls[k].resolved
     THEN /\ isScrapingBilling' = FALSE
          /\ billingWin' = IF isLive(billingWin, billingWindow)
                           THEN closeWindow(billingWin, billingWindow) ELSE billingWin
          /\ billingWindow' = 0
          /\ billingCalls' = [billingCalls EXCEPT ![k] = settle(@, None, "timeout", 0)]
     ELSE /\ billingCalls' = [billingCalls EXCEPT ![k].timer = "fired"]
          /\ UNCHANGED <<isScrapingBilling, billingWindow, billingWin>>
  /\ UNCHANGED <<billingLoads, isScrapingUsage, scraperWindow, usageCalls,
                 usageWin, usageLoads, page, extracted, appVars>>

\* window k comes to show page p (a navigation, a redirect, a re-render)
BillingPageChanges(k, p) ==
  /\ billingWin[k].state = "open"
  /\ billingWin[k].page # p
  /\ billingWin' = [billingWin EXCEPT ![k].page = p]
  /\ UNCHANGED <<isScrapingBilling, billingWindow, billingCalls, billingLoads,
                 isScrapingUsage, scraperWindow, usageCalls, usageWin,
                 usageLoads, page, extracted, appVars>>

\* did-finish-load of window k up to the 3 s wait, lines 564-586
BillingDidFinishLoad(k) ==
  /\ emitsEvents(billingWin[k])
  /\ billingWin[k].page # 0
  /\ Len(billingLoads[k]) < MaxLoads
  /\ IF billingCalls[k].resolved \/ ~isLive(billingWin, billingWindow)
     THEN /\ billingLoads' = [billingLoads EXCEPT ![k] = Append(@, Returned)]
          /\ UNCHANGED <<isScrapingBilling, billingWindow, billingCalls, billingWin>>
     ELSE LET current == billingWin[billingWindow].page
          IN  IF isLoginUrl(BillingPages[current].url)
              THEN /\ isScrapingBilling' = FALSE
                   /\ billingWin' = IF isLive(billingWin, billingWindow)
                                    THEN closeWindow(billingWin, billingWindow)
                                    ELSE billingWin
                   /\ billingWindow' = 0
                   /\ billingCalls' = [billingCalls EXCEPT
                        ![k] = settle(@, None, "did-finish-load", current)]
                   /\ billingLoads' = [billingLoads EXCEPT ![k] = Append(@, Returned)]
              ELSE /\ billingLoads' = [billingLoads EXCEPT ![k] = Append(@, Waiting)]
                   /\ UNCHANGED <<isScrapingBilling, billingWindow, billingCalls, billingWin>>
  /\ UNCHANGED <<isScrapingUsage, scraperWindow, usageCalls, usageWin,
                 usageLoads, page, extracted, appVars>>

\* handler h of call k after the 3 s wait: line 588 and executeJavaScript
BillingAfterWait(k, h) ==
  /\ billingLoads[k][h] = Waiting
  /\ IF billingCalls[k].resolved \/ ~isLive(billingWin, billingWindow)
     THEN billingLoads' = [billingLoads EXCEPT ![k][h] = Returned]
     ELSE billingLoads' = [billingLoads EXCEPT ![k][h] = Evaluating]
  /\ UNCHANGED <<isScrapingBilling, billingWindow, billingCalls, billingWin,
                 isScrapingUsage, scraperWindow, usageCalls, usageWin,
                 usageLoads, page, extracted, appVars>>

\* handler h of call k when executeJavaScript has come back with out, lines
\* 629-672
BillingEvaluated(k, h, out) ==
  /\ billingLoads[k][h] = Evaluating
  /\ billingLoads' = [billingLoads EXCEPT ![k][h] = Returned]
  /\ LET parsed == BillingResults[billingWin[k].page]
         release(value, how, from) ==
           /\ isScrapingBilling' = FALSE
           /\ billingWin' = IF isLive(billingWin, billingWindow)
                            THEN closeWindow(billingWin, billingWindow) ELSE billingWin
           /\ billingWindow' = 0
           /\ billingCalls' = [billingCalls EXCEPT ![k] = settle(@, value, how, from)]
     IN  IF out = "throws"
         THEN \* the catch block
              IF ~billingCalls[k].resolved THEN release(None, "catch", 0)
              ELSE UNCHANGED <<isScrapingBilling, billingWindow, billingCalls, billingWin>>
         ELSE IF ~billingCalls[k].resolved /\ out = "json"
         THEN IF parsed.needsLogin THEN release(None, "needs-login", billingWin[k].page)
              ELSE release(Some(convertBilling(parsed)), "script", billingWin[k].page)
         ELSE UNCHANGED <<isScrapingBilling, billingWindow, billingCalls, billingWin>>
  /\ UNCHANGED <<isScrapingUsage, scraperWindow, usageCalls, usageWin,
                 usageLoads, page, extracted, appVars>>


-----------------------------------------------------------------------------
(* The scraper: both scrapes, called in any order and at any time           *)

NoPage == [href |-> <<>>, text |-> <<>>]

Init ==
  /\ isScrapingUsage = FALSE
  /\ scraperWindow = 0
  /\ isScrapingBilling = FALSE
  /\ billingWindow = 0
  /\ usageCalls = <<>>
  /\ billingCalls = <<>>
  /\ usageWin = <<>>
  /\ billingWin = <<>>
  /\ usageLoads = <<>>
  /\ billingLoads = <<>>
  /\ page = NoPage
  /\ extracted = None
  /\ appInit(defaults)

Next ==
  \/ ScrapeClaudeUsage
  \/ \E k \in 1..Len(usageCalls) : UsageTimeout(k)
  \/ \E k \in 1..Len(usageCalls), p \in 1..Len(UsagePages) : UsageDidNavigate(k, p)
  \/ \E k \in 1..Len(usageCalls), p \in 1..Len(UsagePages) : UsagePageChanges(k, p)
  \/ \E k \in 1..Len(usageCalls) : UsageDidFinishLoad(k)
  \/ \E k \in 1..Len(usageCalls), h \in 1..MaxLoads :
       h <= Len(usageLoads[k]) /\ UsageAfterWait(k, h)
  \/ \E k \in 1..Len(usageCalls), h \in 1..MaxLoads, out \in EvalOutcomes :
       h <= Len(usageLoads[k]) /\ UsageEvaluated(k, h, out)
  \/ ScrapeBillingInfo
  \/ \E k \in 1..Len(billingCalls) : BillingTimeout(k)
  \/ \E k \in 1..Len(billingCalls), p \in 1..Len(BillingPages) : BillingPageChanges(k, p)
  \/ \E k \in 1..Len(billingCalls) : BillingDidFinishLoad(k)
  \/ \E k \in 1..Len(billingCalls), h \in 1..MaxLoads :
       h <= Len(billingLoads[k]) /\ BillingAfterWait(k, h)
  \/ \E k \in 1..Len(billingCalls), h \in 1..MaxLoads, out \in EvalOutcomes :
       h <= Len(billingLoads[k]) /\ BillingEvaluated(k, h, out)

Spec == Init /\ [][Next]_vars

-----------------------------------------------------------------------------
(* The application: the main process with the renderer's listener, and the  *)
(* two functions checkAndNotify and addLog on their own                     *)

MainNext ==
  \/ WhenReady
  \/ \E settings \in Settings : SaveSettings(settings)
  \/ RefreshAll
  \/ \E t \in 1..Len(timers) : TimerFires(t)
  \/ \E r \in 1..Len(refreshes),
          result \in {None,
                      Some([isAuthenticated |-> FALSE, bars |-> <<>>]),
                      Some([isAuthenticated |-> TRUE,
                            bars |-> << [label |-> "Current session",
                                         percentage |-> 90] >>])} :
       UsageResolves(r, result)
  \* the billing scrape's answer is only logged: one answer is followed
  \/ \E r \in 1..Len(refreshes), result \in {Some([creditBalance |-> 5])} :
       BillingResolves(r, result)
  \/ BeforeQuit

SpecMain == Init /\ [][MainNext]_vars

\* checkAndNotify(claudeUsage) is called with a result that has bars
CheckAndNotify(bars) ==
  /\ Len(checked) < MaxChecks
  /\ \E st \in {checkAndNotify(store.notificationThreshold, bars, 1, Len(checked) + 1,
                               [last |-> lastNotifiedPercentages,
                                shown |-> notifications,
                                logs |-> activityLogs])} :
       /\ lastNotifiedPercentages' = st.last
       /\ notifications' = st.shown
       /\ activityLogs' = st.logs
  /\ checked' = Append(checked, bars)
  /\ UNCHANGED <<store, refreshInterval, timers, refreshes, claudeUsage, logs,
                 scraperVars, page, extracted, platformLoginWindow, platformLogins>>

\* the store holds settings of an earlier run
NotifyInit ==
  /\ isScrapingUsage = FALSE
  /\ scraperWindow = 0
  /\ isScrapingBilling = FALSE
  /\ billingWindow = 0
  /\ usageCalls = <<>>
  /\ billingCalls = <<>>
  /\ usageWin = <<>>
  /\ billingWin = <<>>
  /\ usageLoads = <<>>
  /\ billingLoads = <<>>
  /\ page = NoPage
  /\ extracted = None
  /\ \E settings \in Settings : appInit(settings)

\* successive results with a fixed threshold. Their bars: one label above,
\* near and below the threshold, two labels, a bar without label, and a label
\* that occurs more than once
SpecNotify ==
  /\ NotifyInit
  /\ [][\E bars \in { << [label |-> "Current session", percentage |-> 90] >>,
                      << [label |-> "Current session", percentage |-> 75] >>,
                      << [label |-> "Current session", percentage |-> 60],
                         [label |-> "All models", percentage |-> 80] >>,
                      << [label |-> "", percentage |-> 69] >>,
                      << [label |-> "Current session", percentage |-> 90],
                         [label |-> "Current session", percentage |-> 60],
                         [label |-> "Current session", percentage |-> 90] >> } :
         CheckAndNotify(bars)]_vars

\* addLog(message) is called
AddLog(message) ==
  /\ activityLogs # <<>> => activityLogs[Len(activityLogs)].timestamp < MaxLogged
  /\ message = <<"Refresh failed">> =>
       Cardinality({i \in 1..Len(activityLogs) :
                      activityLogs[i].message = <<"Refresh failed">>}) < MaxFailures
  /\ activityLogs' = addLog(activityLogs, message)
  /\ UNCHANGED <<store, refreshInterval, timers, lastNotifiedPercentages, notifications,
                 checked, refreshes, claudeUsage, logs,
                 scraperVars, page, extracted, platformLoginWindow, platformLogins>>

SpecLog ==
  /\ Init
  /\ [][\E message \in {<<"Refreshing data...">>, <<"Refresh failed">>} :
         AddLog(message)]_vars

\* the platform login on its own: calls, page loads, timers, answers of the
\* evaluation and the user closing the window
LoginNext ==
  \/ OpenPlatformLoginWindow
  \/ \E k \in 1..Len(platformLogins), p \in {"signin", "billing", "elsewhere"} :
       PlatformDidFinishLoad(k, p)
  \/ \E k \in 1..Len(platformLogins) : CheckLoginStatus(k)
  \/ \E k \in 1..Len(platformLogins), e \in 1..MaxSeen, throws \in BOOLEAN :
       CheckEvaluated(k, e, throws)
  \/ \E k \in 1..Len(platformLogins) : CloseTimerFires(k)
  \/ \E k \in 1..Len(platformLogins) : PlatformClosed(k)

SpecLogin == Init /\ [][LoginNext]_vars

-----------------------------------------------------------------------------
(* The extraction alone: the in-page script and the conversion of its       *)
(* answer, applied to page texts made of at most MaxLines lines of Lexicon. *)

MaxLines == 3

Lexicon ==
  << <<"C", "u", "r", "r", "e", "n", "t", " ", "s", "e", "s", "s", "i", "o", "n">>,
     <<"S", "o", "n", "n", "e", "t", "U+B9CC">>,
     <<"U+C8FC", "U+AC04", " ", "U+D55C", "U+B3C4">>,
     <<"U+C77C", "U+C77C", " ", "U+D55C", "U+B3C4">>,
     <<"U+C6D4", "U+AC04", " ", "U+D55C", "U+B3C4">>,
     <<"R", "e", "s", "e", "t", "s", " ", "S", "a", "t">>,
     <<"6", "5", "%", " ", "u", "s", "e", "d">>,
     <<"1", "5", "0", "%", " ", "u", "s", "e", "d">>,
     <<"A", "l", "l", " ", "m", "o", "d", "e", "l", "s", " ", "7", "%", " ", "8", "%">>,
     <<"S", "o", "n", "n", "e", "t", "U+B9CC", " ", "9", "%">> >>

\* the lines joined by "\n"
RECURSIVE joinLines(_)
joinLines(ls) ==
  IF Len(ls) = 0 THEN <<>>
  ELSE IF Len(ls) = 1 THEN ls[1]
  ELSE ls[1] \o <<"\n">> \o joinLines(Tail(ls))

PageTexts ==
  { joinLines([k \in 1..Len(choice) |-> Lexicon[choice[k]]]) :
      choice \in UNION { [1..n -> 1..Len(Lexicon)] : n \in 0..MaxLines } }

ExtractInit ==
  /\ isScrapingUsage = FALSE
  /\ scraperWindow = 0
  /\ isScrapingBilling = FALSE
  /\ billingWindow = 0
  /\ usageCalls = <<>>
  /\ billingCalls = <<>>
  /\ usageWin = <<>>
  /\ billingWin = <<>>
  /\ usageLoads = <<>>
  /\ billingLoads = <<>>
  /\ page \in { [href |-> CLAUDE_USAGE_URL, text |-> t] : t \in PageTexts }
  /\ extracted = None
  /\ appInit(defaults)

\* the script runs on the page and its answer is converted, lines 185-460
RunScript ==
  /\ extracted = None
  /\ extracted' = Some(convertResult(extractUsage(page.href, page.text)))
  /\ UNCHANGED <<page, isScrapingUsage, scraperWindow, usageCalls, usageWin,
                 usageLoads, isScrapingBilling, billingWindow, billingCalls,
                 billingWin, billingLoads, appVars>>

ExtractNext == RunScript

SpecExtract == ExtractInit /\ [][ExtractNext]_vars

-----------------------------------------------------------------------------
(* Properties of the scraper's life cycle (specification Spec)              *)

\* a scrape of this kind has been accepted and has not resolved
inFlight(calls) == \E k \in 1..Len(calls) : calls[k].accepted /\ ~calls[k].resolved

\* this step is one more invocation
invoked(calls, calls2) == Len(calls2) = Len(calls) + 1

\* what an invocation made while a scrape is in flight must look like: it has
\* resolved to null at once, it has no window, timer or handler, and the
\* in-flight call, the windows, the module's window reference and the flag are
\* as they were
turnedAway(calls, calls2, wins, wins2, loads2, ref, ref2, flag, flag2) ==
  /\ calls2[Len(calls2)].settled
  /\ calls2[Len(calls2)].value = None
  /\ ~calls2[Len(calls2)].accepted
  /\ calls2[Len(calls2)].timer = "none"
  /\ loads2[Len(calls2)] = <<>>
  /\ wins2[Len(calls2)].state = "none"
  /\ SubSeq(wins2, 1, Len(wins)) = wins
  /\ SubSeq(calls2, 1, Len(calls)) = calls
  /\ ref2 = ref
  /\ flag2 = flag

\* C1: while a usage scrape is unresolved, every further call of
\* scrapeClaudeUsage returns null immediately, creates no window, does not
\* close the window in flight and does not change the in-flight flag; it is
\* neither queued nor run in parallel. The same holds for scrapeBillingInfo.
C1_SingleFlight ==
  [][ /\ (inFlight(usageCalls) /\ invoked(usageCalls, usageCalls')) =>
           turnedAway(usageCalls, usageCalls', usageWin, usageWin', usageLoads',
                      scraperWindow, scraperWindow', isScrapingUsage, isScrapingUsage')
      /\ (inFlight(billingCalls) /\ invoked(billingCalls, billingCalls')) =>
           turnedAway(billingCalls, billingCalls', billingWin, billingWin',
                      billingLoads', billingWindow, billingWindow',
                      isScrapingBilling, isScrapingBilling')
      \* a call that was turned away never comes to life later
      /\ \A k \in 1..Len(usageCalls) :
           ~usageCalls[k].accepted =>
             /\ usageCalls'[k] = usageCalls[k]
             /\ usageWin'[k] = usageWin[k]
             /\ usageLoads'[k] = <<>>
      /\ \A k \in 1..Len(billingCalls) :
           ~billingCalls[k].accepted =>
             /\ billingCalls'[k] = billingCalls[k]
             /\ billingWin'[k] = billingWin[k]
             /\ billingLoads'[k] = <<>>
    ]_vars

\* a second scrapeClaudeUsage was turned away and the first is still in
\* flight in its open window
C1_Witness ==
  /\ Len(usageCalls) = 2
  /\ usageCalls[1].accepted /\ ~usageCalls[1].resolved
  /\ ~usageCalls[2].accepted /\ usageCalls[2].value = None
  /\ isScrapingUsage
  /\ scraperWindow = 1 /\ usageWin[1].state = "open"
  /\ Len(usageLoads[1]) = 1

\* the state of each scrape that the other must leave alone
usageSide == <<isScrapingUsage, scraperWindow, usageWin, usageCalls, usageLoads>>
billingSide == <<isScrapingBilling, billingWindow, billingWin, billingCalls, billingLoads>>

\* C2: the usage scrape and the billing scrape are independently
\* single-flight: a usage scrape in flight never has scrapeBillingInfo
\* rejected, nor the other way round, and no step of one scrape changes the
\* other's in-flight flag or window.
C2_Independent ==
  [][ /\ invoked(billingCalls, billingCalls') =>
           (billingCalls'[Len(billingCalls')].accepted <=> ~inFlight(billingCalls))
      /\ invoked(usageCalls, usageCalls') =>
           (usageCalls'[Len(usageCalls')].accepted <=> ~inFlight(usageCalls))
      /\ (usageSide' # usageSide) => (billingSide' = billingSide)
      /\ (billingSide' # billingSide) => (usageSide' = usageSide)
    ]_vars

\* a billing scrape was accepted and is in flight, in its own window, beside
\* a usage scrape that has meanwhile ended by its timeout
C2_Witness ==
  /\ Len(usageCalls) = 1 /\ Len(billingCalls) = 1
  /\ usageCalls[1].accepted /\ usageCalls[1].how = "timeout"
  /\ ~isScrapingUsage /\ scraperWindow = 0
  /\ billingCalls[1].accepted /\ ~billingCalls[1].resolved
  /\ isScrapingBilling
  /\ billingWindow = 1 /\ billingWin[1].state = "open"

\* the timer of call k fires in this step while the call is unresolved
timesOut(calls, calls2, k) ==
  /\ calls[k].timer = "armed" /\ ~calls[k].resolved
  /\ calls2[k].timer = "fired"

\* what is left after a timeout: the call has resolved to null, no window of
\* this scrape is open, the module's reference is null and the flag is clear
cleanedUp(calls2, wins2, ref2, flag2, k) ==
  /\ calls2[k].settled /\ calls2[k].value = None
  /\ \A w \in 1..Len(wins2) : wins2[w].state # "open"
  /\ ref2 = 0
  /\ flag2 = FALSE

\* C3: when a scrape's 30 s timer fires before the scrape has resolved, the
\* call resolves to null, the hidden window is closed, the module's window
\* reference is null and the in-flight flag is cleared, so that the next call
\* of the same scrape is accepted and no window stays allocated.
C3_TimeoutCleanup ==
  [][ /\ \A k \in 1..Len(usageCalls) :
           timesOut(usageCalls, usageCalls', k) =>
             cleanedUp(usageCalls', usageWin', scraperWindow', isScrapingUsage', k)
      /\ \A k \in 1..Len(billingCalls) :
           timesOut(billingCalls, billingCalls', k) =>
             cleanedUp(billingCalls', billingWin', billingWindow', isScrapingBilling', k)
      \* the call that follows a timeout is accepted
      /\ (/\ invoked(usageCalls, usageCalls')
          /\ Len(usageCalls) > 0
          /\ usageCalls[Len(usageCalls)].how = "timeout") =>
           /\ usageCalls'[Len(usageCalls')].accepted
           /\ usageWin'[Len(usageCalls')].state = "open"
      /\ (/\ invoked(billingCalls, billingCalls')
          /\ Len(billingCalls) > 0
          /\ billingCalls[Len(billingCalls)].how = "timeout") =>
           /\ billingCalls'[Len(billingCalls')].accepted
           /\ billingWin'[Len(billingCalls')].state = "open"
    ]_vars

\* a usage scrape timed out with its page loaded and its handler waiting, and
\* the next call was accepted
C3_Witness ==
  /\ Len(usageCalls) = 2
  /\ usageCalls[1].how = "timeout" /\ usageCalls[1].value = None
  /\ usageWin[1].state = "destroyed"
  /\ Len(usageLoads[1]) = 1
  /\ usageCalls[2].accepted /\ ~usageCalls[2].resolved
  /\ scraperWindow = 2 /\ usageWin[2].state = "open"

\* C4: a usage scrape that ends by its timeout or by an exception raised
\* while the page is evaluated or parsed resolves to null; a result that is
\* not null is the conversion of the whole answer of the script for the page
\* it ran on, or the fixed result for a login redirect.
C4_AllOrNothing ==
  \A k \in 1..Len(usageCalls) :
    LET call == usageCalls[k]
    IN  (call.accepted /\ call.settled) =>
          /\ call.how \in {"timeout", "catch"} => call.value = None
          /\ call.value # None =>
               /\ call.from \in 1..Len(UsagePages)
               /\ \/ /\ call.how = "script"
                     /\ call.value[1] = convertResult(extractUsage(
                          UsagePages[call.from].url, UsagePages[call.from].text))
                  \/ /\ call.how \in {"did-navigate", "did-finish-load"}
                     /\ isLoginUrl(UsagePages[call.from].url)
                     /\ call.value[1] = notAuthenticatedResult

\* one usage scrape ended in the catch block with null, the next one with the
\* result of the data page
C4_Witness ==
  /\ Len(usageCalls) = 2
  /\ usageCalls[1].how = "catch" /\ usageCalls[1].value = None
  /\ usageCalls[2].how = "script" /\ usageCalls[2].from = 1
  /\ usageCalls[2].value # None
  /\ Len(barsOf(usageCalls[2].value[1])) = 1

\* the page asks for a login: its URL or its text says so
asksForLogin(p) ==
  \/ includes(UsagePages[p].url, <<"/", "l", "o", "g", "i", "n">>)
  \/ includes(UsagePages[p].url, <<"/", "s", "i", "g", "n", "u", "p">>)
  \/ /\ includes(UsagePages[p].text, <<"W", "e", "l", "c", "o", "m", "e", " ", "b", "a", "c", "k">>)
     /\ includes(UsagePages[p].text, <<"C", "o", "n", "t", "i", "n", "u", "e", " ", "w", "i", "t", "h">>)

\* C6: if the page's URL contains '/login' or '/signup', or its text contains
\* both 'Welcome back' and 'Continue with', the result has isAuthenticated
\* false, no bars and no resetDate, plan or email, whatever headings and
\* percentages the text holds; in every other case isAuthenticated is true.
C6_AuthGate ==
  \A k \in 1..Len(usageCalls) :
    LET call == usageCalls[k]
    IN  (call.settled /\ call.value # None) =>
          IF asksForLogin(call.from)
          THEN /\ call.value[1].isAuthenticated = FALSE
               /\ barsOf(call.value[1]) = <<>>
               /\ call.value[1].resetDate = None
               /\ call.value[1].plan = None
               /\ call.value[1].email = None
          ELSE call.value[1].isAuthenticated = TRUE

\* two scrapes ended with the script's answer: one on the page that shows the
\* login phrases around usage data, one on a page with only 'Welcome back'
C6_Witness ==
  /\ Len(usageCalls) = 2
  /\ usageCalls[1].how = "script" /\ usageCalls[1].from = 2
  /\ usageCalls[1].value[1].isAuthenticated = FALSE
  /\ usageCalls[2].how = "script" /\ usageCalls[2].from = 3
  /\ usageCalls[2].value[1].isAuthenticated = TRUE

-----------------------------------------------------------------------------
(* Properties of the extraction (specification SpecExtract)                 *)

\* the bars of the result the script and the conversion gave for the page
resultBars == barsOf(extracted[1])

\* the 0-based indices of the lines that are headings
headings(lines) == {i \in 0..(Len(lines) - 1) : isLabel(lines[i + 1])}

\* C5: if the labeled-section parser emits at least one bar, the fallback
\* parser is not run: the bars of the result are the labeled parser's, each
\* carries a heading line of the text as its label, and there are no more
\* bars than heading lines; the outputs of the two parsers are never merged.
C5_HeadingPrecedence ==
  (extracted # None /\ Len(labeledBars(page.text)) >= 1) =>
    LET lines == pageLines(page.text)
        labeled == labeledBars(page.text)
    IN  /\ Len(resultBars) = Len(labeled)
        /\ \A k \in 1..Len(resultBars) :
             /\ resultBars[k] = convertBar(labeled[k])
             /\ \E i \in headings(lines) : resultBars[k].label = lines[i + 1]
        /\ Len(resultBars) <= Cardinality(headings(lines))

\* a page where a heading has its percentage and a later line holds bare
\* percentages the fallback parser would have turned into bars
C5_Witness ==
  /\ extracted # None
  /\ page.text = <<"C", "u", "r", "r", "e", "n", "t", " ", "s", "e", "s", "s", "i", "o", "n", "\n", "6", "5", "%", " ", "u", "s", "e", "d", "\n", "A", "l", "l", " ", "m", "o", "d", "e", "l", "s", " ", "7", "%", " ", "8", "%">>
  /\ Len(fallbackBars(page.text)) = 3
  /\ Len(resultBars) = 1
  /\ resultBars[1].label = <<"C", "u", "r", "r", "e", "n", "t", " ", "s", "e", "s", "s", "i", "o", "n">>
  /\ resultBars[1].percentage = 65

\* C7: the bars of a result hold at most one entry per canonical label: no
\* two bars carry the same label after normalization, also when a heading
\* line occurs more than once in the text.
C7_OneBarPerLabel ==
  extracted # None =>
    \A i, j \in 1..Len(resultBars) :
      i # j => normalizeLabel(resultBars[i].label) # normalizeLabel(resultBars[j].label)

\* C8: every bar of a result has a percentage in 0..100, whichever parser
\* produced it; a heading followed by '150% used' gives no bar of 150.
C8_PercentageInRange ==
  extracted # None =>
    \A k \in 1..Len(resultBars) : resultBars[k].percentage \in 0..100

\* the localized labels and what each stands for
localizedLabels == {<<"S", "o", "n", "n", "e", "t", "U+B9CC">>, <<"U+C8FC", "U+AC04", " ", "U+D55C", "U+B3C4">>, <<"U+C77C", "U+C77C", " ", "U+D55C", "U+B3C4">>, <<"U+C6D4", "U+AC04", " ", "U+D55C", "U+B3C4">>}

\* C9: a bar whose raw label is one of the localized variants carries the
\* canonical label, whichever parser produced it, so no bar of a result
\* carries a localized label; the heading 'SonnetU+B9CC' followed by '65% used'
\* gives a bar 'Sonnet only' of 65.
C9_LabelsNormalized ==
  extracted # None =>
    /\ \A k \in 1..Len(resultBars) : resultBars[k].label \notin localizedLabels
    /\ page.text = <<"S", "o", "n", "n", "e", "t", "U+B9CC", "\n", "6", "5", "%", " ", "u", "s", "e", "d">> =>
         /\ Len(resultBars) = 1
         /\ resultBars[1].label = <<"S", "o", "n", "n", "e", "t", " ", "o", "n", "l", "y">>
         /\ resultBars[1].percentage = 65

\* the 0-based indices of the lines the scan loop of heading i can read
scanWindow(lines, i) == {j \in (i + 1)..(Len(lines) - 1) : j < i + ScanBound}

isPercentLine(line) == match(line, pctUsedRe).found \/ match(line, pctOnlyRe).found

isResetLine(line) == startsWith(toLowerCase(line), <<"r", "e", "s", "e", "t">>)

\* C10: the labeled-section parser emits a bar for a heading only if a
\* percentage line or a line starting with 'reset' was found in the
\* heading's scan window; a heading with neither gives no bar, and a bar
\* without a found percentage carries the reset text that was found.
C10_NoZeroFilledStub ==
  extracted # None =>
    LET lines == pageLines(page.text)
        withData == {i \in headings(lines) :
                       \E j \in scanWindow(lines, i) :
                         isPercentLine(lines[j + 1]) \/ isResetLine(lines[j + 1])}
    IN  /\ \A i \in headings(lines) \ withData : sectionBars(lines, i) = <<>>
        /\ \A i \in headings(lines) :
             sectionBars(lines, i) # <<>> =>
               /\ i \in withData
               /\ (\A j \in scanWindow(lines, i) : ~isPercentLine(lines[j + 1])) =>
                    /\ sectionBars(lines, i)[1].resetInfo # <<>>
                    /\ isResetLine(sectionBars(lines, i)[1].resetInfo)
        /\ Len(labeledBars(page.text)) <= Cardinality(withData)
        \* with no such heading, every bar of the result is the fallback's, which
        \* sets context
        /\ withData = {} => \A k \in 1..Len(resultBars) : resultBars[k].context # None

\* the heading 'Current session' has neither a percentage line nor reset text
\* in its window and gave no bar; the one bar of the result is the fallback's
C10_Witness ==
  /\ extracted # None
  /\ page.text = <<"C", "u", "r", "r", "e", "n", "t", " ", "s", "e", "s", "s", "i", "o", "n", "\n", "S", "o", "n", "n", "e", "t", "U+B9CC", " ", "9", "%">>
  /\ headings(pageLines(page.text)) = {0}
  /\ labeledBars(page.text) = <<>>
  /\ Len(resultBars) = 1
  /\ resultBars[1].label = <<"S", "o", "n", "n", "e", "t", " ", "o", "n", "l", "y">>
  /\ resultBars[1].percentage = 9

-----------------------------------------------------------------------------
(* The extraction applied to page texts that reach the scan window of the    *)
(* labeled-section parser: texts of a few lines of SectionLexicon, and       *)
(* texts of up to SectionLines lines that start with a heading and hold at   *)
(* most two other lines of SectionMarks among filler lines.                  *)

DenseLines == 4
SectionLines == 10

SectionLexicon ==
  << <<"C", "u", "r", "r", "e", "n", "t", " ", "s", "e", "s", "s", "i", "o", "n">>,
     <<"W", "e", "e", "k", "l", "y", " ", "l", "i", "m", "i", "t", "s">>,
     <<"R", "e", "s", "e", "t", "s", " ", "S", "a", "t", " ", "4", ":", "0", "0", " ", "P", "M">>,
     <<"r", "e", "s", "e", "t", " ", "a", "t", " ", "9", "%", " ", "u", "s", "e", "d">>,
     <<"4", "5", "%", " ", "U", "S", "E", "D">> >>

SectionHeads == << <<"C", "u", "r", "r", "e", "n", "t", " ", "s", "e", "s", "s", "i", "o", "n">>, <<"w", "e", "e", "k", "l", "y", " ", "L", "I", "M", "I", "T", "S">> >>

SectionMarks ==
  << <<"a", "l", "l", " ", "M", "O", "D", "E", "L", "S">>,
     <<"W", "e", "e", "k", "l", "y", " ", "l", "i", "m", "i", "t", "s">>,
     <<"R", "e", "s", "e", "t", "s", " ", "S", "a", "t", " ", "4", ":", "0", "0", " ", "P", "M">>,
     <<"a", "t", " ", "4", "5", "%", " ", "u", "s", "e", "d", " ", "u", "p">>,
     <<"8", "0", "%">> >>

FillerLine == <<"x">>

\* the lines of a text that starts with head and holds mark a at 0-based
\* line p and mark b at line q, p < q, filler lines elsewhere; a mark of 0 is
\* no line at all
sparseLines(head, p, a, q, b) ==
  With(IF b # 0 THEN q ELSE IF a # 0 THEN p ELSE 0, LAMBDA last :
    [k \in 1..(last + 1) |->
       IF k = 1 THEN head
       ELSE IF k = p + 1 /\ a # 0 THEN SectionMarks[a]
       ELSE IF k = q + 1 /\ b # 0 THEN SectionMarks[b]
       ELSE FillerLine])

SparseTexts ==
  { joinLines(sparseLines(SectionHeads[h], pq[1], ab[1], pq[2], ab[2])) :
      h \in 1..Len(SectionHeads),
      pq \in {c \in (1..(SectionLines - 1)) \X (1..(SectionLines - 1)) : c[1] < c[2]},
      ab \in {c \in (0..Len(SectionMarks)) \X (0..Len(SectionMarks)) :
                c[1] = 0 => c[2] = 0} }

DenseTexts ==
  { joinLines([k \in 1..Len(choice) |-> SectionLexicon[choice[k]]]) :
      choice \in UNION { [1..n -> 1..Len(SectionLexicon)] : n \in 0..DenseLines } }

\* the usage page as it renders for a Max plan, and a page with the summary
\* header over the per-model weekly entries
SectionExamples ==
  { <<"C", "u", "r", "r", "e", "n", "t", " ", "s", "e", "s", "s", "i", "o", "n", "\n", "R", "e", "s", "e", "t", "s", " ", "i", "n", " ", "2", " ", "h", "r", " ", "0", " ", "m", "i", "n", "\n", "4", "5", "%", " ", "u", "s", "e", "d", "\n", "A", "l", "l", " ", "m", "o", "d", "e", "l", "s", "\n", "R", "e", "s", "e", "t", "s", " ", "S", "a", "t", " ", "4", ":", "0", "0", " ", "P", "M", "\n", "8", "0", "%", " ", "u", "s", "e", "d">>,
    <<"W", "e", "e", "k", "l", "y", " ", "l", "i", "m", "i", "t", "s", "\n", "A", "l", "l", " ", "m", "o", "d", "e", "l", "s", "\n", "R", "e", "s", "e", "t", "s", " ", "S", "a", "t", " ", "4", ":", "0", "0", " ", "P", "M", "\n", "4", "5", "%", " ", "u", "s", "e", "d", "\n", "S", "o", "n", "n", "e", "t", " ", "o", "n", "l", "y", "\n", "8", "0", "%">> }

SectionTexts == DenseTexts \cup SparseTexts \cup SectionExamples

SectionInit ==
  /\ isScrapingUsage = FALSE
  /\ scraperWindow = 0
  /\ isScrapingBilling = FALSE
  /\ billingWindow = 0
  /\ usageCalls = <<>>
  /\ billingCalls = <<>>
  /\ usageWin = <<>>
  /\ billingWin = <<>>
  /\ usageLoads = <<>>
  /\ billingLoads = <<>>
  /\ page \in { [href |-> CLAUDE_USAGE_URL, text |-> t] : t \in SectionTexts }
  /\ extracted = None
  /\ appInit(defaults)

SpecSection == SectionInit /\ [][ExtractNext]_vars

-----------------------------------------------------------------------------
(* Properties of the labeled-section parser (specification SpecSection)     *)

\* the elements of a finite set of integers in increasing order
RECURSIVE ascending(_)
ascending(S) ==
  IF S = {} THEN <<>>
  ELSE \* the least element first
       LET least == CHOOSE x \in S : \A y \in S : x <= y
       IN  <<least>> \o ascending(S \ {least})

\* the number written by a run of decimal digits
RECURSIVE decimalValue(_)
decimalValue(ds) ==
  IF Len(ds) = 0 THEN 0
  ELSE 10 * decimalValue(SubSeq(ds, 1, Len(ds) - 1))
       + (CHOOSE d \in 0..9 : <<"0", "1", "2", "3", "4", "5", "6", "7", "8", "9">>[d + 1] = ds[Len(ds)])

\* the number written by the digits that end at the first "%" of the line
percentOf(line) ==
  LET at == CHOOSE k \in 1..Len(line) :
              line[k] = "%" /\ \A m \in 1..(k - 1) : line[m] # "%"
      from == CHOOSE s \in 1..at :
                /\ \A m \in s..(at - 1) : line[m] \in Digits
                /\ s > 1 => line[s - 1] \notin Digits
  IN  decimalValue(SubSeq(line, from, at - 1))

\* the headings that are the summary header 'Weekly limits'
weeklyHeaders(lines) ==
  {i \in headings(lines) : toLowerCase(lines[i + 1]) = <<"w", "e", "e", "k", "l", "y", " ", "l", "i", "m", "i", "t", "s">>}

\* the 0-based indices of the n lines after line i, as far as the text goes
nextLines(lines, i, n) == {j \in (i + 1)..(i + n) : j <= Len(lines) - 1}

\* the percentage lines among the n lines after line i
percentLines(lines, i, n) ==
  {j \in nextLines(lines, i, n) : isPercentLine(lines[j + 1])}

\* the headings, other than the summary header, with a percentage line or a
\* line starting with 'reset' among the seven lines after them
owners(lines) ==
  {i \in headings(lines) \ weeklyHeaders(lines) :
     \E j \in nextLines(lines, i, 7) :
       isPercentLine(lines[j + 1]) \/ isResetLine(lines[j + 1])}

\* C11: a line that is exactly 'Weekly limits' (in any case) never produces a
\* bar itself, also when a percentage or reset line of a following entry lies
\* in its scan window: no bar of the result carries it as label, and the
\* headings that follow it produce their own bars, one each.
C11_WeeklyLimitsSkip ==
  extracted # None =>
    \E lines \in {pageLines(page.text)} :
      /\ \A k \in 1..Len(resultBars) :
           toLowerCase(resultBars[k].label) # <<"w", "e", "e", "k", "l", "y", " ", "l", "i", "m", "i", "t", "s">>
      /\ \A i \in weeklyHeaders(lines) : sectionBars(lines, i) = <<>>
      /\ owners(lines) # {} =>
           /\ Len(resultBars) = Cardinality(owners(lines))
           /\ \A i \in owners(lines) :
                \E k \in 1..Len(resultBars) : resultBars[k].label = lines[i + 1]

\* the summary header has the reset line and the percentage of 'All models'
\* in its scan window; the two bars are those of the per-model headings
C11_Witness ==
  /\ extracted # None
  /\ page.text = <<"W", "e", "e", "k", "l", "y", " ", "l", "i", "m", "i", "t", "s", "\n", "A", "l", "l", " ", "m", "o", "d", "e", "l", "s", "\n", "R", "e", "s", "e", "t", "s", " ", "S", "a", "t", " ", "4", ":", "0", "0", " ", "P", "M", "\n", "4", "5", "%", " ", "u", "s", "e", "d", "\n", "S", "o", "n", "n", "e", "t", " ", "o", "n", "l", "y", "\n", "8", "0", "%">>
  /\ weeklyHeaders(pageLines(page.text)) = {0}
  /\ percentLines(pageLines(page.text), 0, 7) = {3, 5}
  /\ Len(resultBars) = 2
  /\ resultBars[1].label = <<"A", "l", "l", " ", "m", "o", "d", "e", "l", "s">> /\ resultBars[1].percentage = 45
  /\ resultBars[2].label = <<"S", "o", "n", "n", "e", "t", " ", "o", "n", "l", "y">> /\ resultBars[2].percentage = 80

\* for every heading but the summary header: the first percentage line among
\* the n lines after the heading is captured, and with no percentage line
\* among them the heading has no bar or a bar of percentage 0
windowCaptures(n) ==
  extracted # None =>
    \E lines \in {pageLines(page.text)} :
      \A i \in headings(lines) \ weeklyHeaders(lines) :
        \E pcts \in {percentLines(lines, i, n)}, bar \in {sectionBars(lines, i)} :
          IF pcts # {}
          THEN /\ Len(bar) = 1
               /\ bar[1].percentage = percentOf(lines[ascending(pcts)[1] + 1])
          ELSE bar = <<>> \/ bar[1].percentage = 0

\* C12 (as stated): the parser scans the 8 lines i+1..i+8 after a heading at
\* line i; a percentage line at any of them is captured when no earlier one
\* matched, and one beyond them is not.
C12_ScanWindowOfEight == windowCaptures(8)

\* C12 (amended): the parser scans the 7 lines i+1..i+7 after a heading at
\* line i, as far as the text goes; a percentage line at any of them is
\* captured when no earlier one matched, and a percentage line at i+8 or
\* later is not captured.
C12_ScanWindow == windowCaptures(7)

\* the percentage line is the seventh line after the heading and is captured
C12_Witness ==
  /\ extracted # None
  /\ page.text = <<"C", "u", "r", "r", "e", "n", "t", " ", "s", "e", "s", "s", "i", "o", "n", "\n", "R", "e", "s", "e", "t", "s", " ", "S", "a", "t", " ", "4", ":", "0", "0", " ", "P", "M", "\n", "x", "\n", "x", "\n", "x", "\n", "x", "\n", "x", "\n", "8", "0", "%">>
  /\ percentLines(pageLines(page.text), 0, 7) = {7}
  /\ Len(resultBars) = 1
  /\ resultBars[1].percentage = 80
  /\ resultBars[1].context = Some(<<"R", "e", "s", "e", "t", "s", " ", "S", "a", "t", " ", "4", ":", "0", "0", " ", "P", "M">>)

\* C13: for each heading the captured percentage is that of the first line
\* of its scan window that matches '<digits>% used' or is exactly
\* '<digits>%'; the scan stops at that line, so the lines after it change
\* neither the percentage nor the reset text, and the reset text is the last
\* line starting with 'reset' at or before that line.
C13_FirstPercentageWins ==
  extracted # None =>
    \E lines \in {pageLines(page.text)} :
      \A i \in headings(lines) \ weeklyHeaders(lines) :
        \E pcts \in {percentLines(lines, i, 7)} :
          pcts # {} =>
            \E first \in {ascending(pcts)[1]}, bar \in {sectionBars(lines, i)} :
              \E resets \in {{j \in (i + 1)..first : isResetLine(lines[j + 1])}} :
                /\ Len(bar) = 1
                /\ bar[1].percentage = percentOf(lines[first + 1])
                /\ bar[1].value = bar[1].percentage
                /\ bar[1].resetInfo =
                     IF resets = {} THEN <<>>
                     ELSE lines[ascending(resets)[Cardinality(resets)] + 1]
                \* the text cut after that line gives the same bar
                /\ sectionBars(SubSeq(lines, 1, first + 1), i) = bar

\* two percentage lines and a second reset line follow the heading: the bar
\* has the first percentage and the reset line before it
C13_Witness ==
  /\ extracted # None
  /\ page.text = <<"C", "u", "r", "r", "e", "n", "t", " ", "s", "e", "s", "s", "i", "o", "n", "\n", "R", "e", "s", "e", "t", "s", " ", "S", "a", "t", " ", "4", ":", "0", "0", " ", "P", "M", "\n", "4", "5", "%", " ", "U", "S", "E", "D", "\n", "r", "e", "s", "e", "t", " ", "a", "t", " ", "9", "%", " ", "u", "s", "e", "d">>
  /\ percentLines(pageLines(page.text), 0, 7) = {2, 3}
  /\ Len(resultBars) = 1
  /\ resultBars[1].percentage = 45
  /\ resultBars[1].context = Some(<<"R", "e", "s", "e", "t", "s", " ", "S", "a", "t", " ", "4", ":", "0", "0", " ", "P", "M">>)

\* C14: when the labeled-section parser gives the bars, they are in the
\* order of their heading lines in the text; each bar has the raw heading
\* line as label, the percentage found after that heading, limit 100, used
\* equal to percentage, and the reset line found after that heading as
\* context.
C14_DocumentOrder ==
  extracted # None =>
    \E lines \in {pageLines(page.text)} :
      \E order \in {ascending(owners(lines))} :
        Len(order) >= 1 =>
          /\ Len(resultBars) = Len(order)
          /\ \A k \in 1..Len(order) :
               \E i \in {order[k]}, bar \in {resultBars[k]} :
                 \E pcts \in {percentLines(lines, i, 7)} :
                   \E last \in {IF pcts = {} THEN Min(i + 7, Len(lines) - 1)
                                ELSE ascending(pcts)[1]} :
                     \E resets \in {{j \in (i + 1)..last : isResetLine(lines[j + 1])}} :
                       /\ bar.label = lines[i + 1]
                       /\ bar.percentage =
                            IF pcts = {} THEN 0 ELSE percentOf(lines[last + 1])
                       /\ bar.limit = 100
                       /\ bar.used = bar.percentage
                       /\ bar.context =
                            IF resets = {} THEN None
                            ELSE Some(lines[ascending(resets)[Cardinality(resets)] + 1])

\* the usage page of a Max plan: two bars, 45 and 80, in the order of their
\* headings, each with the reset line that follows its heading
C14_Witness ==
  /\ extracted # None
  /\ page.text = <<"C", "u", "r", "r", "e", "n", "t", " ", "s", "e", "s", "s", "i", "o", "n", "\n", "R", "e", "s", "e", "t", "s", " ", "i", "n", " ", "2", " ", "h", "r", " ", "0", " ", "m", "i", "n", "\n", "4", "5", "%", " ", "u", "s", "e", "d", "\n", "A", "l", "l", " ", "m", "o", "d", "e", "l", "s", "\n", "R", "e", "s", "e", "t", "s", " ", "S", "a", "t", " ", "4", ":", "0", "0", " ", "P", "M", "\n", "8", "0", "%", " ", "u", "s", "e", "d">>
  /\ extracted[1].isAuthenticated
  /\ resultBars =
       << [used |-> 45, limit |-> 100, percentage |-> 45,
           label |-> <<"C", "u", "r", "r", "e", "n", "t", " ", "s", "e", "s", "s", "i", "o", "n">>, context |-> Some(<<"R", "e", "s", "e", "t", "s", " ", "i", "n", " ", "2", " ", "h", "r", " ", "0", " ", "m", "i", "n">>)],
          [used |-> 80, limit |-> 100, percentage |-> 80,
           label |-> <<"A", "l", "l", " ", "m", "o", "d", "e", "l", "s">>, context |-> Some(<<"R", "e", "s", "e", "t", "s", " ", "S", "a", "t", " ", "4", ":", "0", "0", " ", "P", "M">>)] >>

-----------------------------------------------------------------------------
(* The extraction applied to page texts that reach the proximity fallback    *)
(* parser: runs of percentages, percentages with a heading or reset text     *)
(* before them, percentages at the edge of the before-text span, and texts   *)
(* without any percentage.                                                  *)

MaxPercents == 6
MaxPieces == 3
MaxPlainLines == 2

\* the concatenation of the strings of a sequence
RECURSIVE joinPieces(_)
joinPieces(ps) ==
  IF Len(ps) = 0 THEN <<>> ELSE ps[1] \o joinPieces(Tail(ps))

\* the k-th percentage of a run: a value not seen before (10k), a value seen
\* before (0) or a value out of range (101)
capToken(k, kind) ==
  IF kind = 1 THEN numberToString(10 * k) \o <<"%", " ">>
  ELSE IF kind = 2 THEN <<"0", "%", " ">>
  ELSE <<"1", "0", "1", "%", " ">>

CapTexts ==
  { joinPieces([k \in 1..Len(kinds) |-> capToken(k, kinds[k])]) :
      kinds \in UNION { [1..n -> 1..3] : n \in 0..MaxPercents } }

\* what stands before a percentage on the page
FallbackContexts ==
  << <<" ">>,
     <<"A", "L", "L", " ", "M", "O", "D", "E", "L", "S", ":", " ">>,
     <<"4", "U+C2DC", "U+AC04", " ", "1", "8", "U+BD84", " ", "U+D6C4", " ", "U+C7AC", "U+C124", "U+C815", "\n">>,
     <<"R", "e", "s", "e", "t", "s", " ", "S", "a", "t", "\n">> >>

FallbackTokens == << <<"4", "2", "%">>, <<"6", "5", "%">> >>

ContextTexts ==
  { joinPieces([k \in 1..Len(choice) |->
                  FallbackContexts[choice[k][1]] \o FallbackTokens[choice[k][2]]]) :
      choice \in UNION { [1..n -> (1..Len(FallbackContexts)) \X (1..Len(FallbackTokens))] :
                           n \in 0..MaxPieces } }

\* n filler characters
padding(n) == [k \in 1..n |-> "."]

SpanContexts ==
  << <<"E", "x", "t", "r", "a", " ", "u", "s", "a", "g", "e">>,
     <<"U+C77C", "U+C77C", " ", "U+D55C", "U+B3C4">>,
     <<"(", "U+D1A0", ")", " ", "U+C624", "U+D6C4", " ", "3", ":", "5", "9", "U+C5D0", " ", "U+C7AC", "U+C124", "U+C815">>,
     <<"R", "e", "s", "e", "t", "s", " ", "S", "a", "t">> >>

\* a context, filler up to 0-based index p, and a percentage at p, with p at
\* most one character away from the before-text span
SpanTexts ==
  { SpanContexts[c] \o <<"\n">> \o padding(p - Len(SpanContexts[c]) - 1) \o <<"4", "2", "%">> :
      c \in 1..Len(SpanContexts), p \in (BeforeSpan - 1)..(BeforeSpan + 1) }

\* pages with percentages the fallback parser reads after reset text in both
\* languages
FallbackExamples ==
  { <<"S", "o", "n", "n", "e", "t", "U+B9CC", ":", " ", "\n", "4", "U+C2DC", "U+AC04", " ", "1", "8", "U+BD84", " ", "U+D6C4", " ", "U+C7AC", "U+C124", "U+C815", "\n", "6", "5", "%">>,
    <<"(", "U+D1A0", ")", " ", "U+C624", "U+D6C4", " ", "3", ":", "5", "9", "U+C5D0", " ", "U+C7AC", "U+C124", "U+C815", " ", "R", "e", "s", "e", "t", "s", " ", "S", "a", "t", "\n", "4", "2", "%">>,
    <<"R", "e", "s", "e", "t", "s", " ", "S", "a", "t", "\n", "r", "e", "s", "e", "t", "s", " ", "S", "u", "n", "\n", "4", "2", "%">>,
    <<"S", "o", "n", "n", "e", "t", "U+B9CC", " ", "4", "2", "%", "A", "L", "L", " ", "M", "O", "D", "E", "L", "S", ":", " ", "6", "5", "%", " ", "4", "2", "%">>,
    <<"r", "e", "s", "e", "t", "s", " ", "i", "n", " ", "2", " ", "h", "r", " ", "4", "2", "%", " ", "R", "e", "s", "e", "t", "s", " ", "S", "a", "t", " ", "6", "5", "%">>,
    <<"W", "e", "e", "k", "l", "y", " ", "l", "i", "m", "i", "t", "s", ":", " ", "4", "2", "%", " ", "w", "e", "e", "k", "l", "y", " ", "l", "i", "m", "i", "t", " ", "6", "5", "%">>,
    <<"3", "U+C77C", " ", "U+D6C4", " ", "U+C7AC", "U+C124", "U+C815", "\n", "4", "U+C2DC", "U+AC04", " ", "1", "8", "U+BD84", " ", "U+D6C4", " ", " ", "U+C7AC", "U+C124", "U+C815", "\n", "4", "2", "%", " ", "U+C8FC", "U+AC04", " ", "U+D55C", "U+B3C4", ":", " ", "6", "5", "%", " ", "U+C6D4", "U+AC04", " ", "U+D55C", "U+B3C4", " ", "7", "%", " ", "U+C77C", "U+C77C", " ", "U+D55C", "U+B3C4", " ", "8", "%">> }

PlainLexicon ==
  << <<"h", "e", "l", "l", "o">>,
     <<"R", "e", "s", "e", "t", "s", " ", "S", "a", "t">>,
     <<"W", "e", "l", "c", "o", "m", "e", " ", "b", "a", "c", "k">>,
     <<"C", "o", "n", "t", "i", "n", "u", "e", " ", "w", "i", "t", "h", " ", "G", "o", "o", "g", "l", "e">>,
     <<"P", "r", "o", " ", "f", "e", "a", "t", "u", "r", "e", "s">>,
     <<"C", "u", "r", "r", "e", "n", "t", " ", "s", "e", "s", "s", "i", "o", "n", ":", " ", "4", "2", " ", "%">>,
     <<"m", "e", "@", "x", ".", "i", "o">> >>

PlainTexts ==
  { joinLines([k \in 1..Len(choice) |-> PlainLexicon[choice[k]]]) :
      choice \in UNION { [1..n -> 1..Len(PlainLexicon)] : n \in 0..MaxPlainLines } }

FallbackTexts == CapTexts \cup ContextTexts \cup SpanTexts \cup FallbackExamples

\* the usage page, and the login page the site redirects to
FallbackPages ==
  { [href |-> CLAUDE_USAGE_URL, text |-> t] : t \in FallbackTexts \cup PlainTexts }
  \cup { [href |-> <<"h", "t", "t", "p", "s", ":", "/", "/", "c", "l", "a", "u", "d", "e", ".", "a", "i", "/", "l", "o", "g", "i", "n">>, text |-> t] : t \in {<<>>, <<"h", "e", "l", "l", "o">>} }

FallbackInit ==
  /\ isScrapingUsage = FALSE
  /\ scraperWindow = 0
  /\ isScrapingBilling = FALSE
  /\ billingWindow = 0
  /\ usageCalls = <<>>
  /\ billingCalls = <<>>
  /\ usageWin = <<>>
  /\ billingWin = <<>>
  /\ usageLoads = <<>>
  /\ billingLoads = <<>>
  /\ page \in FallbackPages
  /\ extracted = None
  /\ appInit(defaults)

SpecFallback == FallbackInit /\ [][ExtractNext]_vars

-----------------------------------------------------------------------------
(* Properties of the proximity fallback parser (specification SpecFallback) *)

\* does sub stand in s at 0-based index k
standsAt(s, sub, k) ==
  /\ k >= 0
  /\ k + Len(sub) <= Len(s)
  /\ \A m \in 1..Len(sub) : s[k + m] = sub[m]

\* the 0-based indices at which sub stands in s
positionsOf(s, sub) == {k \in 0..(Len(s) - Len(sub)) : standsAt(s, sub, k)}

\* the greatest element of a non-empty finite set of integers
greatest(S) == CHOOSE x \in S : \A y \in S : y <= x

\* the 1-based position of the last digit of the run of digits that starts at
\* position s
runEnd(text, s) ==
  greatest({e \in s..Len(text) : \A m \in s..e : text[m] \in Digits})

\* the occurrences of '<digits>%' from left to right: every maximal run of
\* digits that a "%" follows, with its 0-based index and its value
percentOccurrences(text) ==
  LET starts == {s \in 1..Len(text) :
                   /\ text[s] \in Digits
                   /\ s > 1 => text[s - 1] \notin Digits
                   /\ runEnd(text, s) < Len(text)
                   /\ text[runEnd(text, s) + 1] = "%"}
      order == ascending(starts)
  IN  [k \in 1..Len(order) |->
         [index |-> order[k] - 1,
          value |-> decimalValue(SubSeq(text, order[k], runEnd(text, order[k])))]]

\* the occurrences with a value in 0..100 that no earlier occurrence has
distinctInRange(occ) ==
  LET keep == {k \in 1..Len(occ) :
                 /\ occ[k].value \in 0..100
                 /\ \A j \in 1..(k - 1) : occ[j].value # occ[k].value}
      order == ascending(keep)
  IN  [k \in 1..Len(order) |-> occ[order[k]]]

\* the first four of them
retained(text) ==
  LET all == distinctInRange(percentOccurrences(text))
  IN  SubSeq(all, 1, IF Len(all) < 4 THEN Len(all) ELSE 4)

\* the bars are the fallback parser's: no heading of the text has a
\* percentage or reset line after it
fromFallback == extracted # None /\ extracted[1].isAuthenticated
                /\ owners(pageLines(page.text)) = {}

\* the up-to-150 characters before 0-based index p
before(text, p) == SubSeq(text, (IF p > 150 THEN p - 150 ELSE 0) + 1, p)

\* a page without a heading line and without an occurrence of '<digits>%'
noData ==
  /\ headings(pageLines(page.text)) = {}
  /\ percentOccurrences(page.text) = <<>>

\* C15 (as stated): for a page text with no recognized heading line and no
\* '<digits>%' occurrence, the empty string included, the result is not null,
\* has isAuthenticated = true and no bars, and for the empty string no
\* document-level reset date.
C15_NoDataIsAuthenticated ==
  (extracted # None /\ noData) =>
    /\ extracted[1].isAuthenticated
    /\ extracted[1].bars = Some(<<>>)
    /\ page.text = <<>> => extracted[1].resetDate = None

\* the page is the login page: its URL has /login or /signup, or its text has
\* both 'Welcome back' and 'Continue with'
loginPage ==
  \/ positionsOf(page.href, <<"/", "l", "o", "g", "i", "n">>) # {}
  \/ positionsOf(page.href, <<"/", "s", "i", "g", "n", "u", "p">>) # {}
  \/ /\ positionsOf(page.text, <<"W", "e", "l", "c", "o", "m", "e", " ", "b", "a", "c", "k">>) # {}
     /\ positionsOf(page.text, <<"C", "o", "n", "t", "i", "n", "u", "e", " ", "w", "i", "t", "h">>) # {}

\* C15 (amended): for a page that is not a login page (its URL has neither
\* /login nor /signup and its text does not hold both 'Welcome back' and
\* 'Continue with') and whose text has no recognized heading line and no
\* '<digits>%' occurrence, the empty string included, the result is not null,
\* has isAuthenticated = true and no bars, and for the empty string no
\* document-level reset date; on a login page the result is not null either,
\* with isAuthenticated = false and no bars.
C15_NoDataIsNotAnError ==
  (extracted # None /\ noData) =>
    /\ barsOf(extracted[1]) = <<>>
    /\ extracted[1].isAuthenticated = ~loginPage
    /\ ~loginPage =>
         /\ extracted[1].bars = Some(<<>>)
         /\ page.text = <<>> => extracted[1].resetDate = None

\* the empty page on the usage URL
C15_Witness ==
  /\ extracted # None
  /\ page = [href |-> CLAUDE_USAGE_URL, text |-> <<>>]
  /\ extracted[1].isAuthenticated
  /\ extracted[1].bars = Some(<<>>)
  /\ extracted[1].resetDate = None

\* C16: when the fallback parser gives the bars, there are at most 4 of
\* them whatever the number of percentages in the text, and they are the
\* first 4 distinct values in 0..100 from left to right.
C16_FallbackCap ==
  fromFallback =>
    \E kept \in {retained(page.text)} :
      /\ Len(resultBars) <= 4
      /\ Len(resultBars) = Len(kept)
      /\ \A k \in 1..Len(kept) : resultBars[k].percentage = kept[k].value

\* six distinct percentages and no heading: four bars, the first four values
C16_Witness ==
  /\ extracted # None
  /\ page.text = <<"1", "0", "%", " ", "2", "0", "%", " ", "3", "0", "%", " ", "4", "0", "%", " ", "5", "0", "%", " ", "6", "0", "%", " ">>
  /\ Len(percentOccurrences(page.text)) = 6
  /\ Len(resultBars) = 4
  /\ resultBars[1].percentage = 10 /\ resultBars[4].percentage = 40

\* the heading whose last occurrence in the before-text lies closest to its
\* end, normalized: the set holds the headings at that distance
closestHeadings(beforeText) ==
  LET low == toLowerCase(beforeText)
      seen == {h \in 1..Len(sectionLabels) :
                 positionsOf(low, toLowerCase(sectionLabels[h])) # {}}
      lastAt(h) == greatest(positionsOf(low, toLowerCase(sectionLabels[h])))
  IN  {normalizeLabel(sectionLabels[h]) :
         h \in {g \in seen : \A f \in seen : lastAt(f) <= lastAt(g)}}

\* the label of the k-th retained occurrence (k from 0) at index p
inferredLabels(text, k, p) ==
  IF closestHeadings(before(text, p)) # {} THEN closestHeadings(before(text, p))
  ELSE IF k < 4
  THEN {<<<<"C", "u", "r", "r", "e", "n", "t", " ", "S", "e", "s", "s", "i", "o", "n">>, <<"A", "l", "l", " ", "m", "o", "d", "e", "l", "s">>, <<"S", "o", "n", "n", "e", "t", " ", "o", "n", "l", "y">>, <<"E", "x", "t", "r", "a", " ", "u", "s", "a", "g", "e">>>>[k + 1]}
  ELSE {<<"U", "s", "a", "g", "e", " ">> \o numberToString(k + 1)}

\* the reset text in the Korean idiom: the line that holds the last
\* occurrence of the idiom, up to the end of that occurrence
koreanReset(beforeText) ==
  LET ends == {e \in 1..Len(beforeText) :
                 /\ standsAt(beforeText, <<"U+C7AC", "U+C124", "U+C815">>, e - 3)
                 /\ \E c \in 1..(e - 3) :
                      /\ beforeText[c] \in {"U+D6C4", "U+C5D0"}
                      /\ \A m \in (c + 1)..(e - 3) : beforeText[m] \in WhiteSpace}
      last == greatest(ends)
      breaks == {b \in 1..last : beforeText[b] = "\n"
                                 /\ \E m \in (b + 1)..last : beforeText[m] \in {"U+D6C4", "U+C5D0"}}
      from == IF breaks = {} THEN 1 ELSE greatest(breaks) + 1
  IN  IF ends = {} THEN None ELSE Some(SubSeq(beforeText, from, last))

\* the reset text in the English idiom: from the first 'reset' of the last
\* line that holds one, to the end of that line
englishReset(beforeText) ==
  LET at == positionsOf(toLowerCase(beforeText), <<"r", "e", "s", "e", "t">>)
      breaks == {b \in 1..Len(beforeText) : beforeText[b] = "\n"}
      lineStart(k) == IF {b \in breaks : b <= k} = {} THEN 0
                      ELSE greatest({b \in breaks : b <= k})
      first == CHOOSE k \in at :
                 /\ lineStart(k) = lineStart(greatest(at))
                 /\ \A j \in at : lineStart(j) = lineStart(k) => k <= j
      end == IF {b \in breaks : b > first} = {} THEN Len(beforeText)
             ELSE (CHOOSE b \in breaks : b > first /\ \A d \in breaks : d > first => b <= d) - 1
  IN  IF at = {} THEN None ELSE Some(SubSeq(beforeText, first + 1, end))

\* the reset text of a percentage with this before-text
resetTextOf(beforeText) ==
  IF koreanReset(beforeText) # None THEN trim(koreanReset(beforeText)[1])
  ELSE IF englishReset(beforeText) # None THEN trim(englishReset(beforeText)[1])
  ELSE <<>>

\* C17: when the fallback parser gives the bars, no two of them have the
\* same percentage; a value that occurs at several places gives one bar, and
\* that bar is the one of its first occurrence: its label and reset text are
\* those found before the first occurrence.
C17_FallbackDedupByValue ==
  fromFallback =>
    /\ \A i, j \in 1..Len(resultBars) :
         i # j => resultBars[i].percentage # resultBars[j].percentage
    /\ \E occ \in {percentOccurrences(page.text)} :
         \A k \in 1..Len(resultBars) :
           \E places \in {{n \in 1..Len(occ) : occ[n].value = resultBars[k].percentage}} :
             /\ places # {}
             /\ \E p \in {occ[ascending(places)[1]].index} :
                  /\ resultBars[k].label \in inferredLabels(page.text, k - 1, p)
                  /\ resultBars[k].context = Some(resetTextOf(before(page.text, p)))

\* 42% stands twice, the second time after a heading and a reset line: one
\* bar of 42 with the default label and no reset text
C17_Witness ==
  /\ extracted # None
  /\ page.text = <<" ", "4", "2", "%", "A", "L", "L", " ", "M", "O", "D", "E", "L", "S", ":", " ", "6", "5", "%", "R", "e", "s", "e", "t", "s", " ", "S", "a", "t", "\n", "4", "2", "%">>
  /\ Len(percentOccurrences(page.text)) = 3
  /\ Len(resultBars) = 2
  /\ resultBars[1] = [used |-> 42, limit |-> 100, percentage |-> 42,
                      label |-> <<"C", "u", "r", "r", "e", "n", "t", " ", "S", "e", "s", "s", "i", "o", "n">>, context |-> Some(<<>>)]
  /\ resultBars[2].percentage = 65
  /\ resultBars[2].label = <<"A", "l", "l", " ", "m", "o", "d", "e", "l", "s">>

\* C18: the bar of the k-th retained percentage (k = 0..3) at index p is
\* labelled with the recognized heading whose last occurrence in the up-to-150
\* characters before p lies closest to p, in any case and normalized; with no
\* heading there, with the k-th of 'Current Session', 'All models',
\* 'Sonnet only', 'Extra usage', or 'Usage N' beyond that list.
C18_FallbackLabelInference ==
  fromFallback =>
    \E kept \in {retained(page.text)} :
      /\ Len(resultBars) = Len(kept)
      /\ \A k \in 1..Len(kept) :
           resultBars[k].label \in inferredLabels(page.text, k - 1, kept[k].index)

\* three percentages: the first after a Korean heading, the second with two
\* headings before it, the third with the nearest heading 150 characters
\* or less away
C18_Witness ==
  /\ extracted # None
  /\ page.text = <<"S", "o", "n", "n", "e", "t", "U+B9CC", " ", "4", "2", "%", "A", "L", "L", " ", "M", "O", "D", "E", "L", "S", ":", " ", "6", "5", "%", " ", "4", "2", "%">>
  /\ Len(resultBars) = 2
  /\ resultBars[1].label = <<"S", "o", "n", "n", "e", "t", " ", "o", "n", "l", "y">>
  /\ resultBars[2].label = <<"A", "l", "l", " ", "m", "o", "d", "e", "l", "s">>

\* the text with the "%" of every occurrence above 100 replaced by "."
withoutOutOfRange(text) ==
  LET occ == percentOccurrences(text)
      signs == {runEnd(text, occ[k].index + 1) + 1 :
                  k \in {n \in 1..Len(occ) : occ[n].value > 100}}
  IN  [m \in 1..Len(text) |-> IF m \in signs THEN "." ELSE text[m]]

\* C19: a '<digits>%' occurrence with a value above 100 gives no bar, clamped
\* or partial, does not count toward the cap of 4 and takes no default label:
\* the bars are those of the same text without these occurrences.
C19_FallbackDiscardsOutOfRange ==
  fromFallback =>
    /\ \A k \in 1..Len(resultBars) : resultBars[k].percentage \in 0..100
    /\ \E occ \in {percentOccurrences(page.text)} :
         \E good \in {{v \in 0..100 : \E n \in 1..Len(occ) : occ[n].value = v}} :
           Len(resultBars) = IF Cardinality(good) < 4 THEN Cardinality(good) ELSE 4
    /\ (\E k \in 1..Len(page.text) : page.text[k] = "%"
                                       /\ withoutOutOfRange(page.text)[k] = ".") =>
         resultBars =
           barsOf(convertResult(extractUsage(page.href, withoutOutOfRange(page.text))))

\* 101% stands first and between in-range values: four bars with the four
\* default labels in order
C19_Witness ==
  /\ extracted # None
  /\ page.text = <<"1", "0", "1", "%", " ", "2", "0", "%", " ", "1", "0", "1", "%", " ", "4", "0", "%", " ", "5", "0", "%", " ", "6", "0", "%", " ">>
  /\ Len(resultBars) = 4
  /\ resultBars[1].percentage = 20 /\ resultBars[1].label = <<"C", "u", "r", "r", "e", "n", "t", " ", "S", "e", "s", "s", "i", "o", "n">>
  /\ resultBars[2].percentage = 40 /\ resultBars[2].label = <<"A", "l", "l", " ", "m", "o", "d", "e", "l", "s">>
  /\ resultBars[3].percentage = 50 /\ resultBars[3].label = <<"S", "o", "n", "n", "e", "t", " ", "o", "n", "l", "y">>
  /\ resultBars[4].percentage = 60 /\ resultBars[4].label = <<"E", "x", "t", "r", "a", " ", "u", "s", "a", "g", "e">>

\* C20: the reset text of each retained percentage is the last match, in the
\* up-to-150 characters before it, of the Korean idiom (non-newline
\* characters ending in 'U+D6C4 U+C7ACU+C124U+C815' or 'U+C5D0 U+C7ACU+C124U+C815'); with no Korean match, the
\* last match of the English idiom ('Reset' or 'Resets' to the end of the
\* line); with neither, empty. The before-text
\* 'SonnetU+B9CC / 4U+C2DCU+AC04 18U+BD84 U+D6C4 U+C7ACU+C124U+C815 /' gives '4U+C2DCU+AC04 18U+BD84 U+D6C4 U+C7ACU+C124U+C815'.
C20_FallbackResetText ==
  fromFallback =>
    /\ \E kept \in {retained(page.text)} :
         /\ Len(resultBars) = Len(kept)
         /\ \A k \in 1..Len(kept) :
              resultBars[k].context =
                Some(resetTextOf(before(page.text, kept[k].index)))
    /\ page.text = <<"S", "o", "n", "n", "e", "t", "U+B9CC", ":", " ", "\n", "4", "U+C2DC", "U+AC04", " ", "1", "8", "U+BD84", " ", "U+D6C4", " ", "U+C7AC", "U+C124", "U+C815", "\n", "6", "5", "%">> =>
         /\ fallbackResetInfo(<<"S", "o", "n", "n", "e", "t", "U+B9CC", "\n", "4", "U+C2DC", "U+AC04", " ", "1", "8", "U+BD84", " ", "U+D6C4", " ", "U+C7AC", "U+C124", "U+C815", "\n">>) = <<"4", "U+C2DC", "U+AC04", " ", "1", "8", "U+BD84", " ", "U+D6C4", " ", "U+C7AC", "U+C124", "U+C815">>
         /\ resultBars = <<[used |-> 65, limit |-> 100, percentage |-> 65,
                            label |-> <<"S", "o", "n", "n", "e", "t", " ", "o", "n", "l", "y">>,
                            context |-> Some(<<"4", "U+C2DC", "U+AC04", " ", "1", "8", "U+BD84", " ", "U+D6C4", " ", "U+C7AC", "U+C124", "U+C815">>)]>>

\* an English reset line stands closer to the percentage than the Korean one,
\* and the Korean one is the reset text
C20_Witness ==
  /\ extracted # None
  /\ page.text = <<"(", "U+D1A0", ")", " ", "U+C624", "U+D6C4", " ", "3", ":", "5", "9", "U+C5D0", " ", "U+C7AC", "U+C124", "U+C815", " ", "R", "e", "s", "e", "t", "s", " ", "S", "a", "t", "\n", "4", "2", "%">>
  /\ englishReset(before(page.text, 27)) = Some(<<"R", "e", "s", "e", "t", "s", " ", "S", "a", "t">>)
  /\ Len(resultBars) = 1
  /\ resultBars[1].percentage = 42
  /\ resultBars[1].context = Some(<<"(", "U+D1A0", ")", " ", "U+C624", "U+D6C4", " ", "3", ":", "5", "9", "U+C5D0", " ", "U+C7AC", "U+C124", "U+C815">>)

-----------------------------------------------------------------------------
(* Competing events of one scrape (specification Spec, FairSpec)            *)

\* this step is an event of call k: its timer goes off, one of its
\* did-finish-load handlers starts or goes on, or its window navigates
eventOf(calls, calls2, wins, wins2, loads, loads2, k) ==
  \/ calls[k].timer = "armed" /\ calls2[k].timer = "fired"
  \/ loads2[k] # loads[k]
  \/ wins2[k].page # wins[k].page

\* C22: exactly-once resolution. Among the timeout, a did-navigate to a login
\* URL, the did-finish-load handlers and a rejection of the evaluation, the
\* first event that runs while the call is unresolved resolves the promise
\* and releases the guard; every later event of the call returns without
\* resolving again, without clearing the in-flight flag and without closing
\* or dereferencing any window.
C22_ExactlyOnce ==
  [][ \A k \in 1..Len(usageCalls) :
        /\ usageCalls'[k].resolves <= 1
        \* the step that resolves call k
        /\ (usageCalls[k].accepted /\ ~usageCalls[k].settled /\ usageCalls'[k].settled) =>
             /\ ~usageCalls[k].resolved /\ usageCalls'[k].resolved
             /\ usageCalls'[k].resolves = 1
             /\ isScrapingUsage /\ ~isScrapingUsage'
             /\ scraperWindow = k /\ scraperWindow' = 0
             /\ usageWin[k].state = "open" /\ usageWin'[k].state = "destroyed"
        \* an event of call k after that
        /\ (usageCalls[k].accepted /\ usageCalls[k].settled
              /\ eventOf(usageCalls, usageCalls', usageWin, usageWin',
                         usageLoads, usageLoads', k)) =>
             /\ usageCalls'[k].value = usageCalls[k].value
             /\ usageCalls'[k].resolves = usageCalls[k].resolves
             /\ isScrapingUsage' = isScrapingUsage
             /\ scraperWindow' = scraperWindow
             /\ \A w \in 1..Len(usageWin) : usageWin'[w].state = usageWin[w].state
    ]_vars

\* the first did-finish-load handler of a call has resolved it with the
\* script's answer while the second handler of the same call is still in
\* executeJavaScript
C22_Witness ==
  /\ Len(usageCalls) >= 1
  /\ usageCalls[1].accepted /\ usageCalls[1].how = "script"
  /\ usageCalls[1].resolves = 1
  /\ usageLoads[1] = <<Returned, Evaluating>>

\* the state of one scrape is consistent: a clear flag means a null
\* reference, and a window is open only as the module's window of the one
\* scrape in flight
consistent(flag, ref, wins, calls) ==
  /\ ~flag => ref = 0
  /\ \A w \in 1..Len(wins) :
       wins[w].state = "open" =>
         /\ flag /\ ref = w
         /\ calls[w].accepted /\ ~calls[w].resolved

\* a callback of an already-resolved call runs in this step while a later
\* call is in flight, and leaves that call, its window and the flag alone
lateCallbackSpares(flag, flag2, ref, ref2, wins, wins2, calls, calls2, loads, loads2) ==
  \A k \in 1..Len(calls), j \in 1..Len(calls) :
    (/\ k < j
     /\ calls[k].resolved
     /\ calls[j].accepted /\ ~calls[j].resolved
     /\ eventOf(calls, calls2, wins, wins2, loads, loads2, k)) =>
       /\ flag2 = flag /\ flag2
       /\ ref2 = ref /\ ref2 = j
       /\ wins2[j] = wins[j] /\ wins2[j].state = "open"
       /\ calls2[j] = calls[j]

\* C23: guard and window are consistent under all interleavings of calls,
\* page events and timers: if isScrapingUsage is false then scraperWindow is
\* null, a hidden window exists only while the flag is true, and a late
\* callback of a resolved scrape never clears the flag or closes the window
\* of a later scrape; likewise for isScrapingBilling and billingWindow.
C23_GuardWindowConsistency ==
  /\ [](consistent(isScrapingUsage, scraperWindow, usageWin, usageCalls))
  /\ [](consistent(isScrapingBilling, billingWindow, billingWin, billingCalls))
  /\ [][ /\ lateCallbackSpares(isScrapingUsage, isScrapingUsage', scraperWindow,
                               scraperWindow', usageWin, usageWin', usageCalls,
                               usageCalls', usageLoads, usageLoads')
         /\ lateCallbackSpares(isScrapingBilling, isScrapingBilling', billingWindow,
                               billingWindow', billingWin, billingWin', billingCalls,
                               billingCalls', billingLoads, billingLoads')
       ]_vars

\* the second usage scrape is in flight in its open window, and a handler of
\* the first, which has resolved, has come back from executeJavaScript
C23_Witness ==
  /\ Len(usageCalls) = 2
  /\ usageCalls[1].resolved /\ usageCalls[1].how = "timeout"
  /\ usageLoads[1] = <<Returned, Evaluating>>
  /\ usageCalls[2].accepted /\ ~usageCalls[2].resolved
  /\ isScrapingUsage /\ scraperWindow = 2
  /\ usageWin[2].state = "open"

\* The timers of the two scrapes fire: a timeout that is armed goes off.
FairSpec ==
  /\ Spec
  /\ WF_vars(\E k \in 1..Len(usageCalls) : UsageTimeout(k))
  /\ WF_vars(\E k \in 1..Len(billingCalls) : BillingTimeout(k))

\* C24: every call of scrapeClaudeUsage or scrapeBillingInfo that passes the
\* guard eventually resolves its promise, and its in-flight flag eventually
\* becomes false again, given that timers fire: also when the page never
\* finishes loading, when the evaluation returns an empty value and when it
\* throws.
C24_EventuallyResolves ==
  /\ \A k \in 1..MaxCalls :
       (k <= Len(usageCalls) /\ usageCalls[k].accepted)
         ~> (k <= Len(usageCalls) /\ usageCalls[k].settled /\ usageCalls[k].resolves = 1)
  /\ \A k \in 1..MaxCalls :
       (k <= Len(billingCalls) /\ billingCalls[k].accepted)
         ~> (k <= Len(billingCalls) /\ billingCalls[k].settled /\ billingCalls[k].resolves = 1)
  /\ isScrapingUsage ~> ~isScrapingUsage
  /\ isScrapingBilling ~> ~isScrapingBilling

\* a usage scrape whose only handler came back from the evaluation without
\* resolving (an empty value) was ended by its timer, and the flag is clear
C24_Witness ==
  /\ Len(usageCalls) = 1
  /\ usageCalls[1].accepted /\ usageCalls[1].how = "timeout"
  /\ usageCalls[1].settled /\ usageCalls[1].value = None
  /\ usageLoads[1] = <<Returned>>
  /\ usageWin[1].page # 0 \/ usageWin[1].state = "destroyed"
  /\ ~isScrapingUsage

\* the headings, other than the summary header, that stand between heading i
\* and line j
headingsBetween(lines, i, j) ==
  {h \in headings(lines) \ weeklyHeaders(lines) : i < h /\ h < j}

-----------------------------------------------------------------------------
(* The main process and the renderer (specifications SpecMain, SpecNotify,  *)
(* SpecLog)                                                                 *)

\* C21: the refresh interval in effect, in the store and as the period of the
\* running timer, is always between 10 and 600 seconds, defaulting to 60.
C21_RefreshIntervalInRange ==
  /\ store.refreshInterval \in 10..600
  /\ \A t \in 1..Len(timers) :
       timers[t].active => timers[t].period \in 10000..600000

\* C26: at most one refresh timer is active at any time. Starting or
\* restarting auto-refresh clears the previous timer before it sets the new
\* one with the period of the settings now stored and triggers exactly one
\* immediate refresh; every save of the settings restarts the timer.
C26_SingleRefreshTimer ==
  /\ [](/\ Cardinality({t \in 1..Len(timers) : timers[t].active}) <= 1
        /\ \A t \in 1..Len(timers) : timers[t].active => t = refreshInterval)
  /\ [][ /\ Len(timers') \in {Len(timers), Len(timers) + 1}
         /\ store' # store => Len(timers') = Len(timers) + 1
         /\ Len(timers') = Len(timers) + 1 =>
              /\ \A t \in 1..Len(timers) : ~timers'[t].active
              /\ timers'[Len(timers')].active
              /\ timers'[Len(timers')].period = store'.refreshInterval * 1000
              /\ Len(refreshes') = Len(refreshes) + 1
       ]_vars

\* the settings were saved twice: the timers of the start and of the first
\* save are cleared, the third runs with the period last saved
C26_Witness ==
  /\ Len(timers) = 3
  /\ ~timers[1].active /\ ~timers[2].active /\ timers[3].active
  /\ timers[1].period = 60000
  /\ timers[3].period = store.refreshInterval * 1000
  /\ Len(refreshes) = 3

\* C28: a refresh whose usage scrape was turned away because an earlier one
\* is still in flight does not replace the usage data the renderer holds.
C28_RejectedRefreshKeepsUsage ==
  [][ \A r \in 1..Len(refreshes') :
        (/\ refreshes'[r].usage = "skipped"
         /\ refreshes'[r].billing # "pending"
         /\ r > Len(refreshes) \/ refreshes[r].billing = "pending") =>
           claudeUsage' = claudeUsage
    ]_vars

\* the key checkAndNotify files a bar under
labelOf(bar) == IF bar.label = "" THEN "Usage" ELSE bar.label

\* C25: with a fixed threshold T a notification for a label is shown only at
\* a refresh where the label's percentage is at least T, and between two
\* notifications for the same label there is a refresh at which the label
\* was below T - 10; with T = 0 no notification is ever shown.
C25_NotificationHysteresis ==
  /\ store.notificationThreshold = 0 => notifications = <<>>
  /\ \A i \in 1..Len(notifications) :
       /\ notifications[i].threshold = store.notificationThreshold
       /\ notifications[i].percentage >= store.notificationThreshold
       /\ \E k \in 1..Len(checked[notifications[i].check]) :
            /\ labelOf(checked[notifications[i].check][k]) = notifications[i].label
            /\ checked[notifications[i].check][k].percentage = notifications[i].percentage
  /\ \A i \in 1..Len(notifications), j \in 1..Len(notifications) :
       (i < j /\ notifications[i].label = notifications[j].label) =>
         /\ notifications[i].check < notifications[j].check
         /\ \E c \in (notifications[i].check + 1)..notifications[j].check :
              /\ \E k \in 1..Len(checked[c]) :
                   /\ labelOf(checked[c][k]) = notifications[i].label
                   /\ checked[c][k].percentage < store.notificationThreshold - 10
              /\ c = notifications[j].check =>
                   \A k \in 1..Len(checked[c]) :
                     labelOf(checked[c][k]) = notifications[i].label =>
                       checked[c][k].percentage >= store.notificationThreshold

\* the last count entries of entries, oldest first
lastEntries(entries, count) ==
  [k \in 1..(IF Len(entries) < count THEN Len(entries) ELSE count) |->
     entries[Len(entries) - (IF Len(entries) < count THEN Len(entries) ELSE count) + k]]

\* C27: the activity log never holds more than 20 entries; adding to a full
\* log drops the oldest entry, so the order of insertion is kept, and the
\* logs sent with a refresh are the last min(6, n) entries, oldest first.
C27_BoundedActivityLog ==
  /\ [](/\ Len(activityLogs) <= 20
        /\ \A i \in 1..(Len(activityLogs) - 1) :
             activityLogs[i + 1].timestamp = activityLogs[i].timestamp + 1
        /\ getRecentLogs(activityLogs, 6) = lastEntries(activityLogs, 6))
  /\ [][ /\ activityLogs' # <<>>
         /\ activityLogs # <<>> =>
              activityLogs'[Len(activityLogs')].timestamp
                = activityLogs[Len(activityLogs)].timestamp + 1
         /\ IF Len(activityLogs) < 20
            THEN /\ Len(activityLogs') = Len(activityLogs) + 1
                 /\ \A i \in 1..Len(activityLogs) : activityLogs'[i] = activityLogs[i]
            ELSE /\ Len(activityLogs') = 20
                 /\ \A i \in 1..19 : activityLogs'[i] = activityLogs[i + 1]
       ]_vars

\* twenty-two entries were added: the log is full, its two oldest entries
\* are gone, and the failure logged among the first two went with them
C27_Witness ==
  /\ Len(activityLogs) = 20
  /\ activityLogs[1].timestamp = 3
  /\ activityLogs[20].timestamp = 22
  /\ \A i \in 1..20 : activityLogs[i].message = <<"Refreshing data...">>
  /\ Len(getRecentLogs(activityLogs, 6)) = 6

-----------------------------------------------------------------------------
(* The platform login (specification SpecLogin)                             *)

\* what the checks observed amounts to a login: a page without sign-in text
\* after one with it, or three pages without sign-in text and none with it
\* before them
loginObserved(obs) ==
  \/ \E i \in 1..Len(obs), j \in 1..Len(obs) :
       i < j /\ obs[i] = "login" /\ obs[j] = "app"
  \/ \E j \in 1..Len(obs) :
       /\ \A i \in 1..j : obs[i] = "app"
       /\ j >= 3

\* C30: openPlatformLoginWindow resolves true only if its checks on the
\* billing URL observed a non-login page after a login page, or three
\* non-login pages with no login page before; closed before that it resolves
\* false; the promise resolves only when the window closes; and a call made
\* while a platform login window is open resolves false without creating a
\* second window.
C30_PlatformLoginDetection ==
  /\ [](/\ Cardinality({w \in 1..Len(platformLogins) :
                          platformLogins[w].state = "open"}) <= 1
        /\ \A k \in 1..Len(platformLogins) :
             /\ platformLogins[k].state = "open" => platformLoginWindow = k
             /\ platformLogins[k].resolved = Some(TRUE) =>
                  /\ platformLogins[k].made
                  /\ loginObserved(SubSeq(platformLogins[k].seen, 1, platformLogins[k].upto))
             /\ (/\ platformLogins[k].resolved # None
                 /\ ~loginObserved(SubSeq(platformLogins[k].seen, 1, platformLogins[k].upto))) =>
                  platformLogins[k].resolved = Some(FALSE)
             /\ platformLogins[k].made =>
                  (platformLogins[k].resolved # None <=> platformLogins[k].state = "closed"))
  /\ [][ /\ \A k \in 1..Len(platformLogins) :
              /\ platformLogins[k].resolved # None =>
                   platformLogins'[k].resolved = platformLogins[k].resolved
              /\ (platformLogins[k].resolved = None /\ platformLogins'[k].resolved # None) =>
                   /\ platformLogins[k].state = "open"
                   /\ platformLogins'[k].state = "closed"
                   /\ platformLoginWindow = k /\ platformLoginWindow' = 0
         /\ (Len(platformLogins') = Len(platformLogins) + 1 /\ platformLoginWindow # 0) =>
              /\ ~platformLogins'[Len(platformLogins')].made
              /\ platformLogins'[Len(platformLogins')].resolved = Some(FALSE)
              /\ platformLoginWindow' = platformLoginWindow
              /\ \A k \in 1..Len(platformLogins) : platformLogins'[k] = platformLogins[k]
       ]_vars

\* the first call saw the sign-in page and then the billing page, its window
\* was closed by the timer and it resolved true; a second call, made while
\* that window was open, had resolved false
C30_Witness ==
  /\ Len(platformLogins) = 2
  /\ platformLogins[1].made /\ platformLogins[1].state = "closed"
  /\ platformLogins[1].seen = <<"login", "app">>
  /\ platformLogins[1].resolved = Some(TRUE)
  /\ platformLogins[1].closers = 0
  /\ ~platformLogins[2].made /\ platformLogins[2].resolved = Some(FALSE)

====
